---- MODULE Spec2Model ----
(***************************************************************************)
(* Sjavs match lifecycle engine: match record, hands and trick state as    *)
(* kept in the shared store, and the command handlers that mutate them.    *)
(***************************************************************************)
EXTENDS Integers, Sequences, FiniteSets, TLC

VARIABLES
    game_match,   \* the stored NormalMatch record (normal_match:{id})
    hands,        \* the stored hands, one key per seat (game:{id}:hand:{0..3})
    trick_state,  \* the stored GameTrickState (game_trick_state:{id}) or None
    response,     \* the reply of the last handler call: operation, seat, outcome
    scoring,      \* the SjavsScoring tally handed to calculate_game_result, or None
    game_result,  \* the GameResult of the last scored game, or None
    cross_state,  \* the stored CrossState (cross_state:{id}) or None
    cross_result, \* the CrossResult of the last apply_game_result, or None
    player_games, \* the hash player_games: user -> match id or None
    match_players,\* per match the hash normal_match:{id}:players: user -> role or None
    matches,      \* per match the stored NormalMatch record (normal_match:{id}) or None
    game_pins,    \* the hash game_pins: is the match's pin still mapped to it
    games,        \* the hash games: the users whose created game it holds
    requests,     \* the lobby requests in flight, one slot per connection
    commands,     \* how many lobby commands have been received
    positions,    \* the last position lookup: user, game, members, seat; or None
    published,    \* the events the last handler step published, with their sink
    sent,         \* the messages the last step put on outbound queues: <<user, event>>
    connections,  \* the users with a live websocket (AppState.user_connections)
    app_state,    \* AppState: whose sender user_connections holds, game_players,
                  \* subscribed_games
    sessions,     \* the handle_socket tasks: user, phase, outbound queue, pump
    listener,     \* the pub/sub listener task: the sends of the event in hand
    clock,        \* the wall clock in milliseconds
    snapshot      \* the initial-state snapshot being built: timestamp, state read

matchVars == <<game_match, hands, trick_state, response>>

scoreVars == <<scoring, game_result, cross_state, cross_result>>

lobbyVars ==
    <<player_games, match_players, matches, game_pins, games, requests, commands,
      positions>>

eventVars == <<published, sent, connections>>

socketVars == <<app_state, sessions, listener>>

timeVars == <<clock, snapshot>>

vars == <<matchVars, scoreVars, lobbyVars, eventVars, socketVars, timeVars>>

storeVars == <<game_match, hands, trick_state>>

\* Option: None is the empty tuple, Some(x) the one-element tuple
None == <<>>

Some(x) == <<x>>

Unwrap(o) == o[1]

Seats == 0..3

\* how many users send lobby commands
NumUsers == 4

\* how many matches NormalMatchRepository::create has stored
NumMatches == 2

\* how many lobby requests can be in flight at once
MaxInFlight == 2

\* how many lobby commands are followed
MaxCommands == 3

\* the users who send commands; user 1 hosts match 1
Users == 1..NumUsers

MatchIds == 1..NumMatches

\* the host of a match; the hosts of the other matches send no commands
HostOf(m) == IF m = 1 THEN 1 ELSE NumUsers + m - 1

AllUsers == 1..(NumUsers + NumMatches - 1)

\* the id of the game a user's create command stores in the hash games
CreatedId(u) == NumMatches + u

Slots == 1..MaxInFlight

\* no game has been scored and no cross state is stored
NoScore ==
    /\ scoring = None
    /\ game_result = None
    /\ cross_state = None
    /\ cross_result = None

\* the lobby keys are empty and no lobby request is in flight
\* websocket sessions followed task by task
MaxSessions == 3

SessionIds == 1..MaxSessions

\* AppState::new; no handle_socket task runs and the listener holds no event
NoSockets ==
    /\ app_state = [user_connections |-> [u \in Users |-> None],
                    game_players |-> [g \in MatchIds |-> None],
                    subscribed_games |-> {}]
    /\ sessions = [i \in SessionIds |-> None]
    /\ listener = <<>>
    /\ clock = 0
    /\ snapshot = None

\* nothing published, nothing queued, no websocket open
NoEvents ==
    /\ published = {}
    /\ sent = {}
    /\ connections = {}
    /\ NoSockets

NoLobby ==
    /\ player_games = [u \in AllUsers |-> None]
    /\ match_players = [m \in MatchIds |-> [u \in AllUsers |-> None]]
    /\ matches = [m \in MatchIds |-> None]
    /\ game_pins = [m \in MatchIds |-> FALSE]
    /\ games = {}
    /\ requests = [s \in Slots |-> None]
    /\ commands = 0
    /\ positions = None

\* ------------------------------------------------------------------------
\* Cards (game/card.rs)

Suits == {"hearts", "diamonds", "clubs", "spades"}

\* Rank discriminants: Seven = 7 .. Ace = 14
Ranks == 7..14

Jack == 11

Queen == 12

Card(suit, rank) == [suit |-> suit, rank |-> rank]

AllCards == {Card(s, r) : s \in Suits, r \in Ranks}

\* a point table in which a ten counts nothing
point_value_no_ten(card) ==
    CASE card.rank = 14 -> 11
      [] card.rank = 13 -> 4
      [] card.rank = 12 -> 3
      [] card.rank = 11 -> 2
      [] OTHER -> 0

\* Card::point_value
point_value(card) ==
    CASE card.rank = 14 -> 11
      [] card.rank = 13 -> 4
      [] card.rank = 12 -> 3
      [] card.rank = 11 -> 2
      [] card.rank = 10 -> 10
      [] OTHER -> 0

\* Card::is_permanent_trump
is_permanent_trump(card) ==
    \/ card.suit = "clubs" /\ card.rank = Queen
    \/ card.suit = "spades" /\ card.rank = Queen
    \/ card.rank = Jack

\* Card::is_trump
is_trump(card, trump_suit) ==
    is_permanent_trump(card) \/ card.suit = trump_suit

\* Card::trump_order (None for a card that is not trump)
trump_order(card, trump_suit) ==
    IF ~is_trump(card, trump_suit) THEN None
    ELSE CASE card.suit = "clubs" /\ card.rank = Queen -> Some(20)
           [] card.suit = "spades" /\ card.rank = Queen -> Some(19)
           [] card.suit = "clubs" /\ card.rank = Jack -> Some(18)
           [] card.suit = "spades" /\ card.rank = Jack -> Some(17)
           [] card.suit = "hearts" /\ card.rank = Jack -> Some(16)
           [] card.suit = "diamonds" /\ card.rank = Jack -> Some(15)
           [] OTHER ->
                IF card.suit = trump_suit
                THEN CASE card.rank = 14 -> Some(14)
                       [] card.rank = 13 -> Some(13)
                       [] card.rank = 12 -> Some(12)
                       [] card.rank = 10 -> Some(11)
                       [] card.rank = 9 -> Some(10)
                       [] card.rank = 8 -> Some(9)
                       [] card.rank = 7 -> Some(8)
                ELSE None

\* Card::non_trump_order
non_trump_order(card) == card.rank

\* Card::beats
beats(self, other, trump_suit, lead_suit) ==
    LET self_order == trump_order(self, trump_suit)
        other_order == trump_order(other, trump_suit)
    IN  IF self_order # None /\ other_order # None
        THEN Unwrap(self_order) > Unwrap(other_order)
        ELSE IF self_order # None THEN TRUE
        ELSE IF other_order # None THEN FALSE
        ELSE IF self.suit = lead_suit /\ other.suit # lead_suit THEN TRUE
        ELSE IF self.suit # lead_suit /\ other.suit = lead_suit THEN FALSE
        ELSE IF self.suit = lead_suit /\ other.suit = lead_suit
             THEN non_trump_order(self) > non_trump_order(other)
        ELSE FALSE

\* ------------------------------------------------------------------------
\* Deck and dealing (game/deck.rs)

\* Suit Display letters; hands are sorted by this letter, then by rank
SuitLetterRank(suit) ==
    CASE suit = "clubs" -> 0
      [] suit = "diamonds" -> 1
      [] suit = "hearts" -> 2
      [] suit = "spades" -> 3

DeckSuitOrder == <<"hearts", "diamonds", "clubs", "spades">>

\* Deck::new: four suits in declaration order, ranks Seven..Ace
NewDeck ==
    [i \in 1..32 |-> Card(DeckSuitOrder[((i - 1) \div 8) + 1], 7 + ((i - 1) % 8))]

\* Number of shuffle outcomes the model draws from
NumShuffles == 3

\* Deck::shuffle: a sample of permutations of the 32 deck positions
ShuffleTable ==
    << <<30, 5, 29, 22, 1, 13, 3, 21, 2, 8, 14, 24, 11, 7, 15, 23,
         12, 6, 16, 20, 17, 4, 18, 19, 27, 25, 31, 9, 28, 26, 32, 10>>,
       <<27, 21, 4, 7, 9, 1, 20, 22, 31, 15, 24, 11, 30, 18, 14, 28,
         16, 2, 8, 5, 17, 32, 29, 25, 19, 12, 10, 23, 26, 6, 3, 13>>,
       <<30, 21, 8, 7, 27, 29, 25, 12, 20, 15, 4, 10, 22, 31, 13, 28,
         1, 32, 24, 14, 6, 2, 9, 3, 11, 23, 16, 19, 17, 18, 5, 26>>,
       <<23, 26, 9, 7, 19, 25, 16, 10, 18, 17, 2, 28, 21, 14, 31, 11,
         22, 29, 1, 13, 4, 15, 5, 24, 12, 20, 32, 8, 27, 30, 6, 3>>,
       <<17, 7, 4, 26, 15, 31, 22, 20, 28, 24, 25, 13, 30, 32, 18, 19,
         2, 12, 6, 8, 9, 5, 29, 14, 1, 3, 16, 21, 27, 10, 11, 23>> >>

Shuffles ==
    {[i \in 1..32 |-> NewDeck[ShuffleTable[k][i]]] :
        k \in {j \in 1..Len(ShuffleTable) : j <= NumShuffles}}

Range(s) == {s[i] : i \in DOMAIN s}

\* the comparator of Deck::deal and Hand::sort_cards
CardBefore(a, b) ==
    \/ SuitLetterRank(a.suit) < SuitLetterRank(b.suit)
    \/ a.suit = b.suit /\ a.rank < b.rank

sort_cards(cards) == SortSeq(cards, CardBefore)

\* Deck::deal: card i goes to player i % 4, then each hand is sorted
deal(deck) ==
    [p \in Seats |-> sort_cards([j \in 1..8 |-> deck[4 * (j - 1) + p + 1]])]

\* Deck::calculate_trump_counts / Hand::calculate_trump_counts, for one suit
trump_count(cards, suit) ==
    Cardinality({i \in DOMAIN cards : is_trump(cards[i], suit)})

\* Hand::calculate_trump_counts followed by .get(suit).unwrap_or(0)
calculate_trump_counts(cards, suit) ==
    IF suit \in Suits THEN trump_count(cards, suit) ELSE 0

\* Hand::get_available_bids: the (length, suit) options it lists
get_available_bids(cards, current_highest) ==
    LET min_bid == IF current_highest = None THEN 5 ELSE Unwrap(current_highest) + 1
        matched == IF current_highest = None THEN 0 ELSE Unwrap(current_highest)
    IN  UNION {IF trump_count(cards, suit_name) >= min_bid
               THEN {[length |-> bid_length, suit |-> suit_name] :
                        bid_length \in min_bid..trump_count(cards, suit_name)}
               ELSE IF trump_count(cards, suit_name) = matched /\ suit_name = "clubs"
               THEN {[length |-> trump_count(cards, suit_name), suit |-> suit_name]}
               ELSE {} : suit_name \in Suits}

\* Deck::has_valid_hands
has_valid_hands(hs) ==
    \E p \in Seats : \E s \in Suits : trump_count(hs[p], s) >= 5

\* Deck::deal_until_valid: the deals the retry loop can return
deal_until_valid == {deal(d) : d \in {x \in Shuffles : has_valid_hands(deal(x))}}

\* ------------------------------------------------------------------------
\* Match record (redis/normal_match/id.rs)

\* NormalMatch::new
NewMatch ==
    [status |-> "waiting",
     dealer_position |-> None,
     current_bidder |-> None,
     current_leader |-> None,
     trump_suit |-> None,
     trump_declarer |-> None,
     highest_bid_length |-> None,
     highest_bidder |-> None,
     highest_bid_suit |-> None]

\* NormalMatch::can_start
can_start(m) == m.status = "waiting"

\* NormalMatch::start_dealing
start_dealing(m, dealer_position) ==
    IF can_start(m)
    THEN [m EXCEPT !.status = "dealing",
                   !.dealer_position = Some(dealer_position),
                   !.current_bidder = Some((dealer_position + 1) % 4),
                   !.current_leader = None,
                   !.trump_suit = None,
                   !.trump_declarer = None,
                   !.highest_bid_length = None,
                   !.highest_bidder = None,
                   !.highest_bid_suit = None]
    ELSE m

\* NormalMatch::start_bidding
start_bidding(m) ==
    IF m.status = "dealing" THEN [m EXCEPT !.status = "bidding"] ELSE m

\* NormalMatch::complete_bidding
complete_bidding(m, trump_suit, trump_declarer) ==
    IF m.status = "bidding"
    THEN [m EXCEPT !.status = "playing",
                   !.trump_suit = Some(trump_suit),
                   !.trump_declarer = Some(trump_declarer),
                   !.current_bidder = None,
                   !.current_leader =
                       IF m.dealer_position # None
                       THEN Some((Unwrap(m.dealer_position) + 1) % 4)
                       ELSE m.current_leader]
    ELSE m

\* a redeal that passes the deal on to the next seat
reset_for_redeal_rotate(m) ==
    IF m.status = "bidding"
    THEN [m EXCEPT !.status = "dealing",
                   !.dealer_position =
                       IF m.dealer_position # None
                       THEN Some((Unwrap(m.dealer_position) + 1) % 4)
                       ELSE None,
                   !.current_bidder =
                       IF m.dealer_position # None
                       THEN Some((Unwrap(m.dealer_position) + 2) % 4)
                       ELSE None,
                   !.highest_bid_length = None,
                   !.highest_bidder = None,
                   !.highest_bid_suit = None,
                   !.trump_suit = None,
                   !.trump_declarer = None,
                   !.current_leader = None]
    ELSE m

\* NormalMatch::reset_for_redeal
reset_for_redeal(m) ==
    IF m.status = "bidding"
    THEN [m EXCEPT !.status = "dealing",
                   !.current_bidder =
                       IF m.dealer_position # None
                       THEN Some((Unwrap(m.dealer_position) + 1) % 4)
                       ELSE None,
                   !.highest_bid_length = None,
                   !.highest_bidder = None,
                   !.highest_bid_suit = None,
                   !.trump_suit = None,
                   !.trump_declarer = None,
                   !.current_leader = None]
    ELSE m

\* a turn check that only looks at the phase
is_player_turn_to_bid_any(m, player_position) == m.status = "bidding"

\* NormalMatch::is_player_turn_to_bid
is_player_turn_to_bid(m, player_position) ==
    m.status = "bidding" /\ m.current_bidder = Some(player_position)

\* NormalMatch::is_playing (status == Playing)
is_playing(m) == m.status = "playing"

\* a validity check that lets any bid of equal length through
is_valid_bid_ge(m, player_position, bid_length, bid_suit) ==
    IF ~is_player_turn_to_bid(m, player_position) THEN "Not your turn to bid"
    ELSE IF m.status # "bidding" THEN "Game is not in bidding phase"
    ELSE IF bid_length < 5 \/ bid_length > 8 THEN "Bid must be between 5 and 8 trumps"
    ELSE IF bid_suit \notin Suits THEN "Invalid trump suit"
    ELSE IF m.highest_bid_length # None
    THEN IF bid_length >= Unwrap(m.highest_bid_length) THEN "ok"
         ELSE "Bid must be at least one more trump"
    ELSE "ok"

\* NormalMatch::is_valid_bid: "ok" or the error message
is_valid_bid(m, player_position, bid_length, bid_suit) ==
    IF ~is_player_turn_to_bid(m, player_position) THEN "Not your turn to bid"
    ELSE IF m.status # "bidding" THEN "Game is not in bidding phase"
    ELSE IF bid_length < 5 \/ bid_length > 8 THEN "Bid must be between 5 and 8 trumps"
    ELSE IF bid_suit \notin Suits THEN "Invalid trump suit"
    ELSE IF m.highest_bid_length # None
    THEN IF bid_length > Unwrap(m.highest_bid_length) THEN "ok"
         ELSE IF bid_length = Unwrap(m.highest_bid_length)
         THEN LET current_suit ==
                      IF m.highest_bid_suit = None THEN ""
                      ELSE Unwrap(m.highest_bid_suit)
              IN  IF bid_suit = "clubs" /\ current_suit # "clubs" THEN "ok"
                  ELSE IF bid_suit = "clubs" /\ current_suit = "clubs"
                  THEN "Cannot bid clubs to match clubs"
                  ELSE "Bid must be higher than current bid, or clubs to match"
         ELSE "Bid must be at least one more trump"
    ELSE "ok"

\* NormalMatch::make_bid: the result (Ok/Err) and the record afterwards
make_bid(m, player_position, bid_length, bid_suit) ==
    LET v == is_valid_bid(m, player_position, bid_length, bid_suit)
    IN  IF v # "ok" THEN [ok |-> FALSE, m |-> m]
        ELSE [ok |-> TRUE,
              m |-> [m EXCEPT !.highest_bid_length = Some(bid_length),
                              !.highest_bidder = Some(player_position),
                              !.highest_bid_suit = Some(bid_suit),
                              !.current_bidder = Some((player_position + 1) % 4)]]

\* NormalMatch::make_pass: Ok/Err, the record afterwards, and the two flags
make_pass(m, player_position) ==
    IF ~is_player_turn_to_bid(m, player_position) \/ m.status # "bidding"
    THEN [ok |-> FALSE, m |-> m, all_passed |-> FALSE, bidding_complete |-> FALSE]
    ELSE LET next_bidder == (player_position + 1) % 4
             m1 == [m EXCEPT !.current_bidder = Some(next_bidder)]
         IN  IF m.highest_bidder = None
             THEN [ok |-> TRUE, m |-> m1,
                   all_passed |-> (m.dealer_position # None
                                   /\ next_bidder =
                                          (Unwrap(m.dealer_position) + 1) % 4),
                   bidding_complete |-> FALSE]
             ELSE [ok |-> TRUE, m |-> m1,
                   all_passed |-> FALSE,
                   bidding_complete |->
                       (next_bidder = (Unwrap(m.highest_bidder) + 1) % 4)]

\* NormalMatch::finish_bidding: Ok/Err and the record afterwards
finish_bidding(m) ==
    IF m.highest_bid_length # None /\ m.highest_bidder # None
       /\ m.highest_bid_suit # None
    THEN [ok |-> TRUE,
          m |-> complete_bidding(m, Unwrap(m.highest_bid_suit),
                                 Unwrap(m.highest_bidder))]
    ELSE [ok |-> FALSE, m |-> m]

\* NormalMatch::determine_partnerships: (declarer, partner)
determine_partnerships(m) ==
    <<Unwrap(m.trump_declarer), (Unwrap(m.trump_declarer) + 2) % 4>>

Statuses == {"waiting", "dealing", "bidding", "playing", "completed", "cancelled"}

\* the Option fields of the record that hold a number, and those that hold text
NumberFields ==
    {"dealer_position", "current_bidder", "current_leader", "trump_declarer",
     "highest_bid_length", "highest_bidder"}

TextFields == {"trump_suit", "highest_bid_suit"}

\* NormalMatch::to_redis_hash: a field that is None gets no entry
to_redis_hash(m) ==
    [f \in {"status"} \cup {g \in NumberFields \cup TextFields : m[g] # None} |->
        IF f = "status" THEN m.status ELSE Unwrap(m[f])]

\* NormalMatch::from_redis_hash: an unknown status reads as waiting, a missing
\* entry as None, and so does an empty trump_suit or highest_bid_suit
from_redis_hash(hash) ==
    [f \in {"status"} \cup NumberFields \cup TextFields |->
        IF f = "status"
        THEN IF "status" \in DOMAIN hash /\ hash["status"] \in Statuses
             THEN hash["status"] ELSE "waiting"
        ELSE IF f \notin DOMAIN hash THEN None
        ELSE IF f \in TextFields /\ hash[f] = "" THEN None
        ELSE Some(hash[f])]

\* NormalMatchRepository::update: the match hash is replaced by the record's
\* fields; the result is the record as get_by_id reads it back
Update(m) == from_redis_hash(to_redis_hash(m))

\* ------------------------------------------------------------------------
\* Hands (game/hand.rs)

\* Hand::has_card
has_card(cards, card) == \E i \in DOMAIN cards : cards[i] = card

\* Hand::remove_card: removes the first occurrence
remove_card(cards, card) ==
    IF ~has_card(cards, card) THEN cards
    ELSE LET pos == CHOOSE i \in DOMAIN cards :
                        cards[i] = card /\ \A j \in 1..(i - 1) : cards[j] # card
         IN  [j \in 1..(Len(cards) - 1) |-> IF j < pos THEN cards[j] ELSE cards[j + 1]]

\* ------------------------------------------------------------------------
\* Tricks (game/trick.rs)

\* TrickState::new
NewTrick(trick_number, initial_leader, trump_suit) ==
    [trick_number |-> trick_number,
     lead_suit |-> None,
     cards_played |-> <<>>,
     current_player |-> initial_leader,
     trick_winner |-> None,
     is_complete |-> FALSE,
     trump_suit |-> trump_suit]

\* the fold of TrickState::determine_winner over cards_played[1..]
RECURSIVE best_entry(_, _, _, _)
best_entry(cards_played, i, trump_suit, lead_suit) ==
    IF i = 1 THEN cards_played[1]
    ELSE LET best == best_entry(cards_played, i - 1, trump_suit, lead_suit)
         IN  IF beats(cards_played[i][2], best[2], trump_suit, lead_suit)
             THEN cards_played[i]
             ELSE best

\* a reducer that never replaces the card led
determine_winner_led(t) == t.cards_played[1][1]

\* TrickState::determine_winner
determine_winner(t) ==
    best_entry(t.cards_played, Len(t.cards_played), t.trump_suit,
               Unwrap(t.lead_suit))[1]

\* TrickState::play_card: Ok/Err and the trick afterwards
play_card(t, player_position, card) ==
    IF player_position # t.current_player \/ t.is_complete \/ Len(t.cards_played) >= 4
    THEN [ok |-> FALSE, t |-> t]
    ELSE LET t1 == [t EXCEPT !.lead_suit =
                                 IF t.cards_played = <<>> THEN Some(card.suit) ELSE @,
                             !.cards_played = Append(@, <<player_position, card>>)]
         IN  IF Len(t1.cards_played) = 4
             THEN [ok |-> TRUE,
                   t |-> [t1 EXCEPT !.is_complete = TRUE,
                                    !.trick_winner = Some(determine_winner(t1))]]
             ELSE [ok |-> TRUE,
                   t |-> [t1 EXCEPT !.current_player = (t.current_player + 1) % 4]]

\* TrickState::get_legal_cards, as the set of cards it returns
get_legal_cards(t, player_hand) ==
    IF t.lead_suit # None
    THEN LET same_suit_cards ==
                 {c \in Range(player_hand) : c.suit = Unwrap(t.lead_suit)}
         IN  IF same_suit_cards # {} THEN same_suit_cards ELSE Range(player_hand)
    ELSE Range(player_hand)

RECURSIVE sum_points(_, _)
sum_points(cards_played, i) ==
    IF i = 0 THEN 0
    ELSE point_value(cards_played[i][2]) + sum_points(cards_played, i - 1)

\* a count that leaves out the card that completed the trick
calculate_points_three(t) == sum_points(t.cards_played, Len(t.cards_played) - 1)

\* TrickState::calculate_points
calculate_points(t) == sum_points(t.cards_played, Len(t.cards_played))

\* TrickState::start_next_trick
start_next_trick(t, new_leader) ==
    [t EXCEPT !.trick_number = @ + 1,
              !.lead_suit = None,
              !.cards_played = <<>>,
              !.current_player = new_leader,
              !.trick_winner = None,
              !.is_complete = FALSE]

\* GameTrickState::new
NewGameTrickState(initial_leader, trump_suit, trump_team) ==
    [current_trick |-> NewTrick(1, initial_leader, trump_suit),
     tricks_won |-> <<0, 0>>,
     points_accumulated |-> <<0, 0>>,
     completed_tricks |-> <<>>,
     trump_team |-> trump_team,
     game_complete |-> FALSE]

\* GameTrickState::complete_trick: Ok/Err and the state afterwards
complete_trick(g) ==
    IF ~g.current_trick.is_complete THEN [ok |-> FALSE, g |-> g]
    ELSE LET winner == Unwrap(g.current_trick.trick_winner)
             points == calculate_points(g.current_trick)
             trump_team_won == g.trump_team[1] = winner \/ g.trump_team[2] = winner
             g1 == [g EXCEPT
                      !.tricks_won =
                          IF trump_team_won THEN <<@[1] + 1, @[2]>>
                          ELSE <<@[1], @[2] + 1>>,
                      !.points_accumulated =
                          IF trump_team_won THEN <<@[1] + points, @[2]>>
                          ELSE <<@[1], @[2] + points>>,
                      !.completed_tricks = Append(@, g.current_trick)]
         IN  IF g.current_trick.trick_number = 8
             THEN [ok |-> TRUE, g |-> [g1 EXCEPT !.game_complete = TRUE]]
             ELSE [ok |-> TRUE,
                   g |-> [g1 EXCEPT !.current_trick = start_next_trick(@, winner)]]

\* ------------------------------------------------------------------------
\* Command handlers (api/handlers)

\* the host joined first and holds seat 0
\* ------------------------------------------------------------------------
\* Events: what the handlers publish and what the instance subscriber forwards
\*   sink "game"             PUBLISH game:{id}        (broadcasting::publish_event)
\*   sink "game_events_list" LPUSH game_events_list   (NotificationRepository)
\*   sink "game_events"      PUBLISH game_events:{id} and player_events:{user}
\*                           for each affected user

Event(name, sink, game, affected) ==
    [event |-> name, sink |-> sink, game |-> game, affected |-> affected]

\* AppState.subscribed_games: only subscribe_user_to_game adds a game to it,
\* and nothing calls subscribe_user_to_game
subscribed_games == {}

\* AppState.subscribed_players: handle_socket adds the user when the socket
\* opens and removes it when the socket closes
subscribed_players == connections

\* the event arrives at start_pubsub_listener, which listens on
\* game_events:{id} for subscribed games and player_events:{user} for
\* subscribed players
Received(e) ==
    /\ e.sink = "game_events"
    /\ (e.game \in subscribed_games \/ e.affected \cap subscribed_players # {})

\* start_pubsub_listener: a received event goes to the outbound queue of each
\* affected user found in user_connections
Forward(e) ==
    IF Received(e) THEN {<<p, e.event>> : p \in e.affected \cap connections} ELSE {}

\* a handler step publishes the events es
Publish(es) ==
    /\ published' = es
    /\ sent' = UNION {Forward(e) : e \in es}

NoEvent_error_event == Publish({Event("error", "game", 1, Seats)})

NoEvent == Publish({})

\* the broadcast_* functions of broadcasting.rs: get_players_in_game gives the
\* affected players, publish_event writes to the channel game:{id}
broadcast(name) == Event(name, "game", 1, Seats)

\* broadcasting::broadcast_to_game: one publication on the match channel and
\* one on each affected user's channel
broadcast_to_game(name) == Event(name, "game_events", 1, Seats)

Host == 0

Reply(op, seat, status, detail) ==
    response' = [op |-> op, seat |-> seat, status |-> status, detail |-> detail]

NoReply == [op |-> "none", seat |-> 0, status |-> 0, detail |-> ""]

\* bid lengths and suits a client may send (u8 length, free-form suit)
BidLengths == 4..9

BidSuits == Suits \cup {"stars"}

\* start_game_handler
start_game_handler(user) ==
    IF user # Host
    THEN /\ Reply("start_game", user, 403, "Only host can start the game")
         /\ UNCHANGED storeVars
         /\ NoEvent
    ELSE IF ~can_start(game_match)
    THEN /\ Reply("start_game", user, 400, "Game cannot be started")
         /\ UNCHANGED storeVars
         /\ NoEvent
    ELSE \E dealer_position \in Seats : \E hs \in deal_until_valid :
            /\ hands' = [p \in Seats |-> Some(hs[p])]
            /\ game_match' =
                   Update(start_bidding(start_dealing(game_match, dealer_position)))
            /\ Reply("start_game", user, 200, "Game started successfully")
            /\ NoEvent
            /\ UNCHANGED trick_state

\* a bid handler that does not count the caller's trumps
make_bid_handler_nocount(player_position, length, suit) ==
    IF hands[player_position] = None
    THEN /\ Reply("bid", player_position, 400, "Hand not found")
         /\ UNCHANGED storeVars
         /\ NoEvent
    ELSE LET r == make_bid(game_match, player_position, length, suit)
         IN  IF r.ok
             THEN /\ game_match' = Update(r.m)
                  /\ Reply("bid", player_position, 200, "Bid made successfully")
                  /\ Publish({broadcast("bid_made")})
                  /\ UNCHANGED <<hands, trick_state>>
             ELSE /\ Reply("bid", player_position, 400, "Invalid bid")
                  /\ UNCHANGED storeVars
                  /\ NoEvent

\* make_bid_handler
make_bid_handler(player_position, length, suit) ==
    IF hands[player_position] = None
    THEN /\ Reply("bid", player_position, 400, "Hand not found")
         /\ UNCHANGED storeVars
         /\ NoEvent
    ELSE IF calculate_trump_counts(Unwrap(hands[player_position]), suit) < length
    THEN /\ Reply("bid", player_position, 400, "Insufficient trumps")
         /\ UNCHANGED storeVars
         /\ NoEvent
    ELSE LET r == make_bid(game_match, player_position, length, suit)
         IN  IF r.ok
             THEN /\ game_match' = Update(r.m)
                  /\ Reply("bid", player_position, 200, "Bid made successfully")
                  /\ Publish({broadcast("bid_made")})
                  /\ UNCHANGED <<hands, trick_state>>
             ELSE /\ Reply("bid", player_position, 400, "Invalid bid")
                  /\ UNCHANGED storeVars
                  /\ NoEvent

\* pass_bid_handler
pass_bid_handler(player_position) ==
    LET r == make_pass(game_match, player_position)
    IN  IF ~r.ok
        THEN /\ Reply("pass", player_position, 400, "Invalid pass")
             /\ UNCHANGED storeVars
             /\ NoEvent
        ELSE IF r.all_passed
        THEN \E hs \in deal_until_valid :
                /\ hands' = [p \in Seats |-> Some(hs[p])]
                /\ game_match' = Update(start_bidding(reset_for_redeal(r.m)))
                /\ Reply("pass", player_position, 200,
                         "All players passed - cards redealt")
                /\ Publish({broadcast("redeal")})
                /\ UNCHANGED trick_state
        ELSE IF r.bidding_complete
        THEN LET f == finish_bidding(r.m)
             IN  IF ~f.ok
                 THEN /\ Reply("pass", player_position, 500,
                               "Failed to complete bidding")
                      /\ UNCHANGED storeVars
                      /\ NoEvent
                 ELSE /\ game_match' = Update(f.m)
                      /\ Reply("pass", player_position, 200,
                               "Bidding complete - game started")
                      /\ Publish({broadcast("bidding_complete")})
                      /\ UNCHANGED <<hands, trick_state>>
        ELSE /\ game_match' = Update(r.m)
             /\ Reply("pass", player_position, 200, "Pass recorded")
             /\ Publish({broadcast("pass_made")})
             /\ UNCHANGED <<hands, trick_state>>

\* play_card_handler
play_card_handler(player_position, card_to_play) ==
    IF ~is_playing(game_match)
    THEN /\ Reply("play_card", player_position, 400, "Game is not in playing phase")
         /\ UNCHANGED storeVars
         /\ NoEvent
    ELSE IF trick_state = None
    THEN /\ Reply("play_card", player_position, 400, "No active trick found")
         /\ UNCHANGED storeVars
         /\ NoEvent
    ELSE IF Unwrap(trick_state).current_trick.current_player # player_position
    THEN /\ Reply("play_card", player_position, 409, "Not your turn to play")
         /\ UNCHANGED storeVars
         /\ NoEvent
    ELSE IF hands[player_position] = None
    THEN /\ Reply("play_card", player_position, 400, "Player hand not found")
         /\ UNCHANGED storeVars
         /\ NoEvent
    ELSE IF ~has_card(Unwrap(hands[player_position]), card_to_play)
    THEN /\ Reply("play_card", player_position, 400, "Card not in hand")
         /\ UNCHANGED storeVars
         /\ NoEvent
    ELSE IF card_to_play \notin
                get_legal_cards(Unwrap(trick_state).current_trick,
                                Unwrap(hands[player_position]))
    THEN /\ Reply("play_card", player_position, 400, "Illegal card play")
         /\ UNCHANGED storeVars
         /\ NoEvent
    ELSE LET r == play_card(Unwrap(trick_state).current_trick, player_position,
                            card_to_play)
         IN  IF ~r.ok
             THEN /\ Reply("play_card", player_position, 500, "Failed to play card")
                  /\ UNCHANGED storeVars
                  /\ NoEvent
             ELSE LET g1 == [Unwrap(trick_state) EXCEPT !.current_trick = r.t]
                      g2 == IF r.t.is_complete THEN complete_trick(g1).g ELSE g1
                  IN  /\ hands' = [hands EXCEPT ![player_position] =
                                       Some(remove_card(Unwrap(@), card_to_play))]
                      /\ trick_state' = Some(g2)
                      /\ Reply("play_card", player_position, 200,
                               IF ~r.t.is_complete THEN "Card played successfully"
                               ELSE IF g2.game_complete
                                    THEN "Card played - Game complete!"
                                    ELSE "Card played - Trick complete!")
                      /\ Publish({broadcast("card_played")}
                                     \cup (IF r.t.is_complete
                                           THEN {broadcast("trick_completed")}
                                           ELSE {}))
                      /\ UNCHANGED game_match

\* ------------------------------------------------------------------------
\* Clients: the card a seat may ask to play

\* how many of its first cards a leader chooses among
MaxLeadChoices == 2

\* the seats that may be dealer in a seeded playing match: 0..MaxSeedDealer
MaxSeedDealer == 0

HandOf(seat) == IF hands[seat] = None THEN <<>> ELSE Unwrap(hands[seat])

LeadSuitNow ==
    IF trick_state = None THEN None ELSE Unwrap(trick_state).current_trick.lead_suit

\* the first card of the pack that a hand does not hold
NotHeld(h) ==
    LET missing == {i \in DOMAIN NewDeck : NewDeck[i] \notin Range(h)}
    IN  {NewDeck[i] : i \in {j \in missing : \A k \in missing : j <= k}}

\* a leader asks for one of its first cards; a follower asks for its highest
\* card of the suit led, or tries to renege; a void seat discards its first
\* card; any seat may also ask for a card it does not hold
PlayRequests(seat) ==
    LET h == HandOf(seat)
        lead == LeadSuitNow
        natural == {i \in DOMAIN h : Some(h[i].suit) = lead}
        top == CHOOSE i \in natural : \A j \in natural : j <= i
    IN  NotHeld(h)
        \cup (IF lead = None
              THEN {h[i] : i \in {j \in DOMAIN h : j <= MaxLeadChoices}}
              ELSE IF natural # {}
              THEN {h[top]} \cup {h[i] : i \in DOMAIN h \ natural}
              ELSE {h[i] : i \in {j \in DOMAIN h : j = 1}})

\* ------------------------------------------------------------------------
\* Specifications

\* a match that four players have joined and that has not been started
Init ==
    /\ game_match = NewMatch
    /\ hands = [p \in Seats |-> None]
    /\ trick_state = None
    /\ response = NoReply
    /\ NoScore
    /\ NoLobby
    /\ NoEvents

\* a match in playing as finish_bidding leaves it, with the trick state that
\* GameTrickState::new builds for it already in the store
InitPlaying ==
    \E hs \in deal_until_valid : \E dealer \in 0..MaxSeedDealer :
    \E declarer \in Seats : \E suit \in Suits :
        /\ trump_count(hs[declarer], suit) >= 5
        /\ LET m0 == start_bidding(start_dealing(NewMatch, dealer))
               m1 == [m0 EXCEPT !.current_bidder = Some((declarer + 1) % 4),
                                !.highest_bid_length =
                                    Some(trump_count(hs[declarer], suit)),
                                !.highest_bidder = Some(declarer),
                                !.highest_bid_suit = Some(suit)]
               m2 == finish_bidding(m1).m
           IN  /\ game_match = m2
               /\ trick_state = Some(NewGameTrickState(Unwrap(m2.current_leader), suit,
                                                       determine_partnerships(m2)))
        /\ hands = [p \in Seats |-> Some(hs[p])]
        /\ response = NoReply
        /\ NoScore
        /\ NoLobby
        /\ NoEvents

StartGame ==
    /\ \E user \in Seats : start_game_handler(user)
    /\ UNCHANGED <<scoreVars, lobbyVars, connections, socketVars, timeVars>>

MakeBid ==
    /\ \E player_position \in Seats : \E length \in BidLengths : \E suit \in BidSuits :
           make_bid_handler(player_position, length, suit)
    /\ UNCHANGED <<scoreVars, lobbyVars, connections, socketVars, timeVars>>

PassBid ==
    /\ \E player_position \in Seats : pass_bid_handler(player_position)
    /\ UNCHANGED <<scoreVars, lobbyVars, connections, socketVars, timeVars>>

PlayCard ==
    /\ \E player_position \in Seats : \E card \in PlayRequests(player_position) :
           play_card_handler(player_position, card)
    /\ UNCHANGED <<scoreVars, lobbyVars, connections, socketVars, timeVars>>

Next == StartGame \/ MakeBid \/ PassBid \/ PlayCard

NextPlay == PlayCard

\* the match lifecycle from a fresh match
Spec == Init /\ [][Next]_vars

\* card play from a seeded playing match
SpecPlay == InitPlaying /\ [][NextPlay]_vars

\* both together
SpecGame == (Init \/ InitPlaying) /\ [][Next]_vars

\* ------------------------------------------------------------------------
\* One trick on its own: TrickState::new, then TrickState::play_card four times

\* how many cards of TrickCardList a trick is drawn from
NumTrickCards == 10

TrickCardList ==
    <<Card("clubs", Queen), Card("hearts", Jack), Card("hearts", 14),
      Card("hearts", 7), Card("spades", 14), Card("spades", 10),
      Card("diamonds", 9), Card("diamonds", Queen), Card("clubs", 8),
      Card("spades", Queen), Card("hearts", 13), Card("diamonds", Jack),
      Card("clubs", 14)>>

TrickCards == {TrickCardList[i] : i \in {j \in DOMAIN TrickCardList : j <= NumTrickCards}}

CardsOfTrick(t) == {t.cards_played[i][2] : i \in DOMAIN t.cards_played}

InitTrick ==
    \E initial_leader \in Seats : \E trump_suit \in Suits :
        /\ game_match = NewMatch
        /\ hands = [p \in Seats |-> None]
        /\ trick_state = Some(NewGameTrickState(initial_leader, trump_suit,
                                                <<initial_leader, (initial_leader + 2) % 4>>))
        /\ response = NoReply
        /\ NoScore
        /\ NoLobby
        /\ NoEvents

\* the seat on turn adds a card that is not yet on the table
TrickPlay ==
    \E card \in TrickCards :
        LET g == Unwrap(trick_state)
            r == play_card(g.current_trick, g.current_trick.current_player, card)
        IN  /\ card \notin CardsOfTrick(g.current_trick)
            /\ r.ok
            /\ trick_state' = Some([g EXCEPT !.current_trick = r.t])
            /\ UNCHANGED <<game_match, hands, response, scoreVars, lobbyVars, eventVars, socketVars, timeVars>>

NextTrick == TrickPlay

SpecTrick == InitTrick /\ [][NextTrick]_vars

\* ------------------------------------------------------------------------
\* Sjavs scoring (game/scoring.rs)

\* the card points of a deck: validate_total_points
TotalPoints == 120

\* the tricks of a game
TotalTricks == 8

\* struct SjavsScoring
SjavsScoring(tp, tt, suit, alone) ==
    [trump_team_points |-> tp, opponent_team_points |-> TotalPoints - tp,
     trump_team_tricks |-> tt, opponent_team_tricks |-> TotalTricks - tt,
     trump_suit |-> suit, individual_vol |-> alone]

\* struct GameResult (the description text is left out)
GameResult(t, o, type) ==
    [trump_team_score |-> t, opponent_team_score |-> o, result_type |-> type]

validate_total_points(s) ==
    s.trump_team_points + s.opponent_team_points = TotalPoints

\* a scoring function that puts 89 points in the upper band
calculate_game_result_band(s) ==
    LET is_clubs == s.trump_suit = "clubs"
    IN  IF s.trump_team_tricks = 8
        THEN IF s.individual_vol
             THEN GameResult(IF is_clubs THEN 24 ELSE 16, 0, "IndividualVol")
             ELSE GameResult(IF is_clubs THEN 16 ELSE 12, 0, "Vol")
        ELSE IF s.opponent_team_tricks = 8
        THEN GameResult(0, 16, "OpponentVol")
        ELSE IF s.trump_team_points = 60 /\ s.opponent_team_points = 60
        THEN GameResult(0, 0, "Tie")
        ELSE IF s.trump_team_points \in 89..120
        THEN GameResult(IF is_clubs THEN 8 ELSE 4, 0, "TrumpTeamWin")
        ELSE IF s.trump_team_points \in 61..88
        THEN GameResult(IF is_clubs THEN 4 ELSE 2, 0, "TrumpTeamWin")
        ELSE IF s.trump_team_points \in 31..59
        THEN GameResult(0, IF is_clubs THEN 8 ELSE 4, "OpponentWin")
        ELSE GameResult(0, IF is_clubs THEN 16 ELSE 8, "OpponentDoubleWin")

\* SjavsScoring::calculate_game_result; a tally above 120 hits unreachable!()
calculate_game_result(s) ==
    LET is_clubs == s.trump_suit = "clubs"
    IN  IF s.trump_team_tricks = 8
        THEN IF s.individual_vol
             THEN GameResult(IF is_clubs THEN 24 ELSE 16, 0, "IndividualVol")
             ELSE GameResult(IF is_clubs THEN 16 ELSE 12, 0, "Vol")
        ELSE IF s.opponent_team_tricks = 8
        THEN GameResult(0, 16, "OpponentVol")
        ELSE IF s.trump_team_points = 60 /\ s.opponent_team_points = 60
        THEN GameResult(0, 0, "Tie")
        ELSE IF s.trump_team_points \in 90..120
        THEN GameResult(IF is_clubs THEN 8 ELSE 4, 0, "TrumpTeamWin")
        ELSE IF s.trump_team_points \in 61..89
        THEN GameResult(IF is_clubs THEN 4 ELSE 2, 0, "TrumpTeamWin")
        ELSE IF s.trump_team_points \in 31..59
        THEN GameResult(0, IF is_clubs THEN 8 ELSE 4, "OpponentWin")
        ELSE IF s.trump_team_points \in 1..30
        THEN GameResult(0, IF is_clubs THEN 16 ELSE 8, "OpponentDoubleWin")
        ELSE IF s.trump_team_points = 0
        THEN GameResult(0, IF is_clubs THEN 16 ELSE 8, "OpponentDoubleWin")
        ELSE GameResult(0, 0, "unreachable")

\* the final tallies a game can be scored with: the points add up to 120 and
\* the tricks to 8
ScoringInputs ==
    {SjavsScoring(tp, tt, suit, alone) :
        tp \in 0..TotalPoints, tt \in 0..TotalTricks, suit \in Suits,
        alone \in BOOLEAN}

\* a final tally is handed to the scoring function
InitScore ==
    /\ game_match = NewMatch
    /\ hands = [p \in Seats |-> None]
    /\ trick_state = None
    /\ response = NoReply
    /\ scoring \in {Some(s) : s \in ScoringInputs}
    /\ game_result = None
    /\ cross_state = None
    /\ cross_result = None
    /\ NoLobby
    /\ NoEvents

\* complete_game_handler's scoring step: validate_total_points, then
\* calculate_game_result
CalculateGameResult ==
    /\ scoring # None
    /\ game_result = None
    /\ validate_total_points(Unwrap(scoring))
    /\ game_result' = Some(calculate_game_result(Unwrap(scoring)))
    /\ UNCHANGED <<matchVars, scoring, cross_state, cross_result, lobbyVars, eventVars, socketVars, timeVars>>

NextScore == CalculateGameResult

SpecScore == InitScore /\ [][NextScore]_vars

\* ------------------------------------------------------------------------
\* Cross bookkeeping (game/cross.rs)

\* the value either counter starts from
CrossStart == 24

\* i8 arithmetic
WrapI8(x) == ((x + 128) % 256) - 128

\* CrossState::new (the match id is left out)
NewCrossState ==
    [trump_team_score |-> CrossStart, opponent_team_score |-> CrossStart,
     trump_team_crosses |-> 0, opponent_team_crosses |-> 0,
     next_game_bonus |-> 0, cross_complete |-> FALSE]

\* check_cross_completion: the state afterwards and the winner, if any
check_cross_completion(c) ==
    IF c.trump_team_score <= 0
    THEN [state |-> [c EXCEPT !.trump_team_crosses = @ + 1, !.cross_complete = TRUE],
          cross_won |-> Some([winning_team |-> "TrumpTeam",
                              double_victory |-> c.opponent_team_score = CrossStart])]
    ELSE IF c.opponent_team_score <= 0
    THEN [state |-> [c EXCEPT !.opponent_team_crosses = @ + 1, !.cross_complete = TRUE],
          cross_won |-> Some([winning_team |-> "OpponentTeam",
                              double_victory |-> c.trump_team_score = CrossStart])]
    ELSE [state |-> c, cross_won |-> None]

\* a bookkeeping step that takes the points from the other side's counter
apply_game_result_swapped(c, g) ==
    LET trump_team_points == g.trump_team_score + c.next_game_bonus
        opponent_team_points == g.opponent_team_score
        bonus_applied == c.next_game_bonus
    IN  IF g.trump_team_score = 0 /\ g.opponent_team_score = 0
        THEN [state |-> [c EXCEPT !.next_game_bonus = 2],
              result |-> [trump_team_old_score |-> c.trump_team_score,
                          opponent_team_old_score |-> c.opponent_team_score,
                          trump_team_new_score |-> c.trump_team_score,
                          opponent_team_new_score |-> c.opponent_team_score,
                          cross_won |-> None, bonus_applied |-> bonus_applied,
                          next_game_bonus |-> 2, cross_complete |-> FALSE]]
        ELSE LET c1 == [c EXCEPT !.next_game_bonus = 0,
                                 !.trump_team_score = WrapI8(@ - opponent_team_points),
                                 !.opponent_team_score = WrapI8(@ - trump_team_points)]
                 k == check_cross_completion(c1)
             IN  [state |-> k.state,
                  result |-> [trump_team_old_score |-> c.trump_team_score,
                              opponent_team_old_score |-> c.opponent_team_score,
                              trump_team_new_score |-> k.state.trump_team_score,
                              opponent_team_new_score |-> k.state.opponent_team_score,
                              cross_won |-> k.cross_won, bonus_applied |-> bonus_applied,
                              next_game_bonus |-> 0,
                              cross_complete |-> k.state.cross_complete]]

\* CrossState::apply_game_result: the state afterwards and the CrossResult
apply_game_result(c, g) ==
    LET trump_team_points == g.trump_team_score + c.next_game_bonus
        opponent_team_points == g.opponent_team_score
        bonus_applied == c.next_game_bonus
    IN  IF g.trump_team_score = 0 /\ g.opponent_team_score = 0
        THEN [state |-> [c EXCEPT !.next_game_bonus = 2],
              result |-> [trump_team_old_score |-> c.trump_team_score,
                          opponent_team_old_score |-> c.opponent_team_score,
                          trump_team_new_score |-> c.trump_team_score,
                          opponent_team_new_score |-> c.opponent_team_score,
                          cross_won |-> None, bonus_applied |-> bonus_applied,
                          next_game_bonus |-> 2, cross_complete |-> FALSE]]
        ELSE LET c1 == [c EXCEPT !.next_game_bonus = 0,
                                 !.trump_team_score = WrapI8(@ - trump_team_points),
                                 !.opponent_team_score = WrapI8(@ - opponent_team_points)]
                 k == check_cross_completion(c1)
             IN  [state |-> k.state,
                  result |-> [trump_team_old_score |-> c.trump_team_score,
                              opponent_team_old_score |-> c.opponent_team_score,
                              trump_team_new_score |-> k.state.trump_team_score,
                              opponent_team_new_score |-> k.state.opponent_team_score,
                              cross_won |-> k.cross_won, bonus_applied |-> bonus_applied,
                              next_game_bonus |-> 0,
                              cross_complete |-> k.state.cross_complete]]

\* CrossState::start_new_game: refused once the cross is complete
start_new_game(c) == ~c.cross_complete

\* CrossState::reset_for_new_cross
reset_for_new_cross(c) ==
    [c EXCEPT !.trump_team_score = CrossStart, !.opponent_team_score = CrossStart,
              !.trump_team_crosses = 0, !.opponent_team_crosses = 0,
              !.next_game_bonus = 0, !.cross_complete = FALSE]

\* the results calculate_game_result can hand to the cross
GameResults == {calculate_game_result(s) : s \in ScoringInputs}

\* a cross state fresh from initialize_cross_state
InitCross ==
    /\ game_match = NewMatch
    /\ hands = [p \in Seats |-> None]
    /\ trick_state = None
    /\ response = NoReply
    /\ scoring = None
    /\ game_result = None
    /\ cross_state = Some(NewCrossState)
    /\ cross_result = None
    /\ NoLobby
    /\ NoEvents

\* a scored game is applied to a cross that is still running
ApplyGameResult ==
    \E g \in GameResults :
        LET r == apply_game_result(Unwrap(cross_state), g)
        IN  /\ start_new_game(Unwrap(cross_state))
            /\ game_result' = Some(g)
            /\ cross_state' = Some(r.state)
            /\ cross_result' = Some(r.result)
            /\ UNCHANGED <<matchVars, scoring, lobbyVars, eventVars, socketVars, timeVars>>

\* a finished cross is reset
ResetForNewCross ==
    /\ Unwrap(cross_state).cross_complete
    /\ cross_state' = Some(reset_for_new_cross(Unwrap(cross_state)))
    /\ game_result' = None
    /\ cross_result' = None
    /\ UNCHANGED <<matchVars, scoring, lobbyVars, eventVars, socketVars, timeVars>>

NextCross == ApplyGameResult \/ ResetForNewCross

SpecCross == InitCross /\ [][NextCross]_vars

\* ------------------------------------------------------------------------
\* Completing a game: complete_game_handler (api/handlers/game_scoring.rs)

\* GameTrickState::check_individual_vol
check_individual_vol(g) ==
    IF g.tricks_won[1] # 8 /\ g.tricks_won[2] # 8 THEN FALSE
    ELSE IF g.tricks_won[1] = 8
    THEN LET won(p) ==
                 Cardinality({i \in DOMAIN g.completed_tricks :
                                 g.completed_tricks[i].trick_winner = Some(p)})
         IN  won(g.trump_team[1]) = 8 \/ won(g.trump_team[2]) = 8
    ELSE FALSE

\* GameTrickState::get_final_scoring (called on a complete game)
get_final_scoring(g) ==
    [trump_team_points |-> g.points_accumulated[1],
     opponent_team_points |-> g.points_accumulated[2],
     trump_team_tricks |-> g.tricks_won[1],
     opponent_team_tricks |-> g.tricks_won[2],
     trump_suit |-> g.current_trick.trump_suit,
     individual_vol |-> check_individual_vol(g)]

\* complete_game_handler's status change: game_match.status = Completed,
\* assigned whatever the status was
mark_completed(m) == [m EXCEPT !.status = "completed"]

\* what complete_game_handler reads before it validates
ReadMatch == [game_match |-> game_match, trick_state |-> trick_state]

\* complete_game_handler from its validation on, on what it has read
complete_game(user, read) ==
    IF read.trick_state = None
    THEN /\ Reply("complete", user, 404, "Trick state not found")
         /\ UNCHANGED <<storeVars, scoring, game_result>>
         /\ NoEvent
    ELSE IF ~Unwrap(read.trick_state).game_complete
    THEN /\ Reply("complete", user, 400, "Game not complete")
         /\ UNCHANGED <<storeVars, scoring, game_result>>
         /\ NoEvent
    ELSE LET sjavs_scoring == get_final_scoring(Unwrap(read.trick_state))
         IN  IF ~validate_total_points(sjavs_scoring)
             THEN /\ Reply("complete", user, 500,
                           "Invalid point totals in completed game")
                  /\ UNCHANGED <<storeVars, scoring, game_result>>
                  /\ NoEvent
             ELSE /\ scoring' = Some(sjavs_scoring)
                  /\ game_result' = Some(calculate_game_result(sjavs_scoring))
                  /\ game_match' = Update(mark_completed(read.game_match))
                  /\ trick_state' = None
                  /\ Reply("complete", user, 200,
                           "Game completed and scored successfully")
                  /\ Publish({broadcast_to_game("game_complete")})
                  /\ UNCHANGED hands

\* complete_game_handler
complete_game_handler(user) == complete_game(user, ReadMatch)

CompleteGame ==
    /\ \E user \in Seats : complete_game_handler(user)
    /\ UNCHANGED <<cross_state, cross_result, lobbyVars, connections, socketVars, timeVars>>

NextComplete == PlayCard \/ CompleteGame

\* card play from a seeded playing match up to the completion of the game
SpecComplete == InitPlaying /\ [][NextComplete]_vars

\* complete_game commands in flight at once, followed from the eighth trick
\* on: a handler reads the match record and the trick state
BeginComplete ==
    \E s \in Slots : \E user \in Seats :
        /\ trick_state # None
        /\ Unwrap(trick_state).game_complete
        /\ requests[s] = None
        /\ \A t \in Slots : t < s => requests[t] # None
        /\ requests' = [requests EXCEPT ![s] =
                            Some([op |-> "complete", user |-> user,
                                  snapshot |-> ReadMatch])]
        /\ NoEvent
        /\ UNCHANGED <<matchVars, scoreVars, player_games, match_players, matches,
                       game_pins, games, commands, positions, connections, socketVars,
                       timeVars>>

\* ... and validates what it has read, writes and answers
FinishComplete ==
    \E s \in Slots :
        /\ requests[s] # None
        /\ complete_game(Unwrap(requests[s]).user, Unwrap(requests[s]).snapshot)
        /\ requests' = [requests EXCEPT ![s] = None]
        /\ UNCHANGED <<cross_state, cross_result, player_games, match_players, matches,
                       game_pins, games, commands, positions, connections, socketVars,
                       timeVars>>

NextCompleteRace == PlayCard \/ CompleteGame \/ BeginComplete \/ FinishComplete

SpecCompleteRace == InitPlaying /\ [][NextCompleteRace]_vars

\* ---------------------------------------------------------------------------
\* Card codes (game/card.rs): a code is a sequence of characters
\* ---------------------------------------------------------------------------

\* longest code sent that is not the code of a card
MaxCodeLen == 2

\* the characters such codes are made of
CodeChars == {"1", "0", "S"}

\* Display for Rank
RankText(rank) ==
    CASE rank = 7 -> <<"7">>
      [] rank = 8 -> <<"8">>
      [] rank = 9 -> <<"9">>
      [] rank = 10 -> <<"1", "0">>
      [] rank = 11 -> <<"J">>
      [] rank = 12 -> <<"Q">>
      [] rank = 13 -> <<"K">>
      [] rank = 14 -> <<"A">>

\* Display for Suit
SuitText(suit) ==
    CASE suit = "hearts" -> <<"H">>
      [] suit = "diamonds" -> <<"D">>
      [] suit = "clubs" -> <<"C">>
      [] suit = "spades" -> <<"S">>

\* Card::code
code(card) == RankText(card.rank) \o SuitText(card.suit)

\* str::to_lowercase on the characters used
to_lowercase(s) ==
    [i \in DOMAIN s |->
        CASE s[i] = "H" -> "h" [] s[i] = "D" -> "d" [] s[i] = "C" -> "c"
          [] s[i] = "S" -> "s" [] s[i] = "J" -> "j"
          [] s[i] = "Q" -> "q" [] s[i] = "K" -> "k" [] s[i] = "A" -> "a"
          [] OTHER -> s[i]]

\* Rank::from(&str): None stands for the panic of the last arm
RankFrom(s) ==
    CASE s = <<"7">> -> Some(7)
      [] s = <<"8">> -> Some(8)
      [] s = <<"9">> -> Some(9)
      [] s = <<"1", "0">> -> Some(10)
      [] s = <<"J">> -> Some(11)
      [] s = <<"Q">> -> Some(12)
      [] s = <<"K">> -> Some(13)
      [] s = <<"A">> -> Some(14)
      [] OTHER -> None

\* Suit::from(&str): None stands for the panic of the last arm
SuitFrom(s) ==
    LET l == to_lowercase(s)
    IN  CASE l \in {<<"h">>, <<"h", "e", "a", "r", "t", "s">>} -> Some("hearts")
          [] l \in {<<"d">>, <<"d", "i", "a", "m", "o", "n", "d", "s">>} -> Some("diamonds")
          [] l \in {<<"c">>, <<"c", "l", "u", "b", "s">>} -> Some("clubs")
          [] l \in {<<"s">>, <<"s", "p", "a", "d", "e", "s">>} -> Some("spades")
          [] OTHER -> None

\* Card::from_code: Ok(card), Err("Card code too short"), or a panic in
\* Rank::from or Suit::from
from_code(c) ==
    IF Len(c) < 2
    THEN [kind |-> "err"]
    ELSE LET ten == c[1] = "1" /\ c[2] = "0"
             rank_str == IF ten THEN <<"1", "0">> ELSE SubSeq(c, 1, 1)
             suit_str == IF ten THEN SubSeq(c, 3, Len(c)) ELSE SubSeq(c, 2, Len(c))
         IN  IF RankFrom(rank_str) = None \/ SuitFrom(suit_str) = None
             THEN [kind |-> "panic"]
             ELSE [kind |-> "ok",
                   card |-> Card(Unwrap(SuitFrom(suit_str)), Unwrap(RankFrom(rank_str)))]

\* the handler reaches step 7, where the card code is parsed
ReachesParse(player_position) ==
    /\ is_playing(game_match)
    /\ trick_state # None
    /\ Unwrap(trick_state).current_trick.current_player = player_position
    /\ hands[player_position] # None

\* play_card_handler on the card code of the request. The checks before step 7
\* do not look at the card. A panic unwinds the handler's task: no response is
\* written and nothing was stored before it.
play_card_request(player_position, card) ==
    LET parsed == from_code(card)
    IN  IF parsed.kind = "ok"
        THEN play_card_handler(player_position, parsed.card)
        ELSE IF ~ReachesParse(player_position)
        THEN play_card_handler(player_position, Card("hearts", 7))
        ELSE IF parsed.kind = "err"
        THEN /\ Reply("play_card", player_position, 400, "Invalid card code")
             /\ UNCHANGED storeVars
             /\ NoEvent
        ELSE /\ Reply("play_card", player_position, 0, "panicked")
             /\ UNCHANGED storeVars
             /\ NoEvent

\* the codes sent that are not the code of a card
MalformedCodes ==
    {c \in UNION {[1..n -> CodeChars] : n \in 0..MaxCodeLen} :
        \A card \in AllCards : code(card) # c}

PlayCardCodeOf(player_position, card) ==
    /\ play_card_request(player_position, card)
    /\ UNCHANGED <<scoreVars, lobbyVars, connections, socketVars, timeVars>>

PlayCardCode ==
    \E player_position \in Seats :
        \E card \in {code(c) : c \in PlayRequests(player_position)} \cup MalformedCodes :
            PlayCardCodeOf(player_position, card)

NextCode == PlayCardCode

SpecCode == InitPlaying /\ [][NextCode]_vars

\* ------------------------------------------------------------------------
\* The lobby: create, join, leave, start and the hand query, one store
\* command per step (api/handlers/normal_match*.rs, game_start.rs)

lobbyStore == <<player_games, match_players, matches, game_pins, games, hands>>

\* HGETALL normal_match:{id}:players; a game id that is no match has no such key
PlayersOf(g) ==
    IF g \in MatchIds THEN match_players[g] ELSE [u \in AllUsers |-> None]

Members(g) == {u \in AllUsers : PlayersOf(g)[u] # None}

\* NormalMatch::is_active
is_active(m) == m.status \in {"dealing", "bidding", "playing"}

\* a request as it enters its handler: pc counts the store commands issued,
\* the other fields are the handler's local variables
NewRequest(op, user, pin) ==
    [op |-> op, user |-> user, pc |-> 1, pin |-> pin, game |-> 0,
     is_host |-> FALSE, affected |-> {}, notify |-> {}, had_match |-> FALSE,
     snapshot |-> None]

\* the handler goes on to its next store command
Continue(s, r) ==
    /\ requests' = [requests EXCEPT ![s] = Some(r)]
    /\ NoEvent
    /\ UNCHANGED response

\* the handler returns its response
Finish(s, r, status, detail) ==
    /\ requests' = [requests EXCEPT ![s] = None]
    /\ Reply(r.op, r.user, status, detail)
    /\ NoEvent

\* the handler publishes through NotificationRepository::publish_event and
\* returns its response
FinishWith(s, r, status, detail, es) ==
    /\ requests' = [requests EXCEPT ![s] = None]
    /\ Reply(r.op, r.user, status, detail)
    /\ Publish(es)

\* NotificationRepository::publish_event: LPUSH game_events_list
publish_event(name, game, affected) ==
    Event(name, "game_events_list", game, affected)

\* leave_match_handler's answer once remove_player reports the game deleted:
\* game_terminated goes out if more than one player was affected
FinishDeleted(s, r) ==
    IF Cardinality(r.notify) > 1
    THEN FinishWith(s, r, 200, "You have left the game and it has been terminated",
                    {publish_event("game_terminated", r.game, r.notify)})
    ELSE Finish(s, r, 200, "You have left the game")

\* the users who joined match 1 before the commands that are followed
Joined == {2, 3}

\* NormalMatchRepository::create for every match (pin, record, host role and
\* the host's association) and add_player for the users who joined match 1
InitLobby ==
    /\ game_match = NewMatch
    /\ hands = [p \in Seats |-> None]
    /\ trick_state = None
    /\ response = NoReply
    /\ NoScore
    /\ player_games =
           [u \in AllUsers |->
               IF \E m \in MatchIds : HostOf(m) = u
               THEN Some(CHOOSE m \in MatchIds : HostOf(m) = u)
               ELSE IF u \in Joined THEN Some(1)
               ELSE None]
    /\ match_players =
           [m \in MatchIds |->
               [u \in AllUsers |->
                   IF u = HostOf(m) THEN Some("host")
                   ELSE IF m = 1 /\ u \in Joined THEN Some("player")
                   ELSE None]]
    /\ matches = [m \in MatchIds |-> Some(NewMatch)]
    /\ game_pins = [m \in MatchIds |-> TRUE]
    /\ games = {}
    /\ requests = [s \in Slots |-> None]
    /\ commands = 0
    /\ positions = None
    /\ published = {}
    /\ sent = {}
    /\ connections = Users
    /\ NoSockets

get_player_game_none(u) == None

\* PlayerRepository::get_player_game: HGET player_games {user}
get_player_game(u) == player_games[u]

\* join_match_handler
join_match_handler(s) ==
    LET r == Unwrap(requests[s])
        u == r.user
    IN  IF r.pc = 1
        THEN /\ IF get_player_game(u) # None
                THEN Finish(s, r, 409, "Already in game")
                ELSE Continue(s, [r EXCEPT !.pc = 2])
             /\ UNCHANGED lobbyStore
        ELSE IF r.pc = 2
        THEN /\ IF ~game_pins[r.pin]
                THEN Finish(s, r, 400, "Invalid pin")
                ELSE Continue(s, [r EXCEPT !.pc = 3, !.game = r.pin])
             /\ UNCHANGED lobbyStore
        ELSE IF r.pc = 3
        THEN /\ IF matches[r.game] = None
                THEN Finish(s, r, 404, "Game not found")
                ELSE IF Unwrap(matches[r.game]).status # "waiting"
                THEN Finish(s, r, 409, "Game not joinable")
                ELSE Continue(s, [r EXCEPT !.pc = 4])
             /\ UNCHANGED lobbyStore
        ELSE IF r.pc = 4
        THEN /\ match_players' = [match_players EXCEPT ![r.game][u] = Some("player")]
             /\ Continue(s, [r EXCEPT !.pc = 5])
             /\ UNCHANGED <<player_games, matches, game_pins, games, hands>>
        ELSE IF r.pc = 5
        THEN /\ player_games' = [player_games EXCEPT ![u] = Some(r.game)]
             /\ Continue(s, [r EXCEPT !.pc = 6])
             /\ UNCHANGED <<match_players, matches, game_pins, games, hands>>
        ELSE /\ IF Cardinality(Members(r.game)) > 1
                THEN FinishWith(s, r, 200, "Joined game successfully",
                                {publish_event("player_joined", r.game, Members(r.game))})
                ELSE Finish(s, r, 200, "Joined game successfully")
             /\ UNCHANGED lobbyStore

\* leave_match_handler with NormalMatchRepository::remove_player
leave_match_handler(s) ==
    LET r == Unwrap(requests[s])
        u == r.user
    IN  IF r.pc = 1
        THEN /\ IF player_games[u] = None
                THEN Finish(s, r, 400, "You are not in any game")
                ELSE Continue(s, [r EXCEPT !.pc = 2, !.game = Unwrap(player_games[u])])
             /\ UNCHANGED lobbyStore
        ELSE IF r.pc = 2
        THEN /\ Continue(s, [r EXCEPT !.pc = 3,
                                      !.is_host = (PlayersOf(r.game)[u] = Some("host"))])
             /\ UNCHANGED lobbyStore
        ELSE IF r.pc = 3
        THEN /\ Continue(s, [r EXCEPT !.pc = IF r.is_host THEN 4 ELSE 8,
                                      !.affected = Members(r.game),
                                      !.notify = Members(r.game)])
             /\ UNCHANGED lobbyStore
        ELSE IF r.pc = 4
        THEN /\ Continue(s, [r EXCEPT !.pc = IF r.affected = {} THEN 6 ELSE 5,
                                      !.had_match = (matches[r.game] # None)])
             /\ UNCHANGED lobbyStore
        ELSE IF r.pc = 5
        THEN \E p \in r.affected :
                /\ player_games' = [player_games EXCEPT ![p] = None]
                /\ Continue(s, [r EXCEPT !.pc = IF r.affected = {p} THEN 6 ELSE 5,
                                         !.affected = r.affected \ {p}])
                /\ UNCHANGED <<match_players, matches, game_pins, games, hands>>
        ELSE IF r.pc = 6
        THEN /\ matches' = [matches EXCEPT ![r.game] = None]
             /\ match_players' =
                    [match_players EXCEPT ![r.game] = [p \in AllUsers |-> None]]
             /\ IF r.had_match
                THEN Continue(s, [r EXCEPT !.pc = 7])
                ELSE FinishDeleted(s, r)
             /\ UNCHANGED <<player_games, game_pins, games, hands>>
        ELSE IF r.pc = 7
        THEN /\ game_pins' = [game_pins EXCEPT ![r.game] = FALSE]
             /\ FinishDeleted(s, r)
             /\ UNCHANGED <<player_games, match_players, matches, games, hands>>
        ELSE IF r.pc = 8
        THEN /\ match_players' =
                    IF r.game \in MatchIds
                    THEN [match_players EXCEPT ![r.game][u] = None]
                    ELSE match_players
             /\ Continue(s, [r EXCEPT !.pc = 9])
             /\ UNCHANGED <<player_games, matches, game_pins, games, hands>>
        ELSE IF r.pc = 9
        THEN /\ IF Members(r.game) = {}
                THEN Finish(s, r, 200, "You have left the game")
                ELSE Continue(s, [r EXCEPT !.pc = 10])
             /\ UNCHANGED lobbyStore
        ELSE /\ player_games' = [player_games EXCEPT ![u] = None]
             /\ Finish(s, r, 200, "You have left the game")
             /\ UNCHANGED <<match_players, matches, game_pins, games, hands>>

\* start_game_handler with its player checks; the hands it stores are those of
\* match 1, the only match whose host sends commands
start_game_request(s) ==
    LET r == Unwrap(requests[s])
        u == r.user
    IN  IF r.pc = 1
        THEN /\ IF player_games[u] = None
                THEN Finish(s, r, 400, "Not in a game")
                ELSE Continue(s, [r EXCEPT !.pc = 2, !.game = Unwrap(player_games[u])])
             /\ UNCHANGED lobbyStore
        ELSE IF r.pc = 2
        THEN /\ IF r.game \notin MatchIds \/ matches[r.game] = None
                THEN Finish(s, r, 404, "Game not found")
                ELSE Continue(s, [r EXCEPT !.pc = 3, !.snapshot = matches[r.game]])
             /\ UNCHANGED lobbyStore
        ELSE IF r.pc = 3
        THEN /\ IF PlayersOf(r.game)[u] # Some("host")
                THEN Finish(s, r, 403, "Only host can start the game")
                ELSE IF Cardinality(Members(r.game)) # 4
                THEN Finish(s, r, 400, "Invalid player count")
                ELSE IF ~can_start(Unwrap(r.snapshot))
                THEN Finish(s, r, 400, "Game cannot be started")
                ELSE Continue(s, [r EXCEPT !.pc = 4])
             /\ UNCHANGED lobbyStore
        ELSE IF r.pc = 4
        THEN \E hs \in deal_until_valid :
                /\ hands' = [p \in Seats |-> Some(hs[p])]
                /\ Continue(s, [r EXCEPT !.pc = 5])
                /\ UNCHANGED <<player_games, match_players, matches, game_pins, games>>
        ELSE \E dealer_position \in Seats :
                /\ matches' =
                       [matches EXCEPT ![r.game] =
                           Some(Update(start_bidding(
                                    start_dealing(Unwrap(r.snapshot), dealer_position))))]
                /\ Finish(s, r, 200, "Game started successfully")
                /\ UNCHANGED <<player_games, match_players, game_pins, games, hands>>

\* create_match_handler: it stores a game in the hash games, not a NormalMatch
create_match_handler(s) ==
    LET r == Unwrap(requests[s])
        u == r.user
    IN  IF r.pc = 1
        THEN /\ IF player_games[u] # None
                THEN Finish(s, r, 409, "Already in game")
                ELSE Continue(s, [r EXCEPT !.pc = 2, !.game = CreatedId(u)])
             /\ UNCHANGED lobbyStore
        ELSE IF r.pc = 2
        THEN /\ games' = games \cup {u}
             /\ Continue(s, [r EXCEPT !.pc = 3])
             /\ UNCHANGED <<player_games, match_players, matches, game_pins, hands>>
        ELSE IF r.pc = 3
        THEN /\ player_games' = [player_games EXCEPT ![u] = Some(r.game)]
             /\ Continue(s, [r EXCEPT !.pc = 4])
             /\ UNCHANGED <<match_players, matches, game_pins, games, hands>>
        ELSE /\ IF u \in games /\ player_games[u] = Some(r.game)
                THEN Finish(s, r, 201, "Game created and verified")
                ELSE Finish(s, r, 500, "Game creation verification failed")
             /\ UNCHANGED lobbyStore

\* the seats players.iter().position can give a user: get_players_in_game
\* collects the hash into a HashMap, whose iteration order is unspecified
PositionsOf(g, u) ==
    IF u \in Members(g) THEN 0..(Cardinality(Members(g)) - 1) ELSE {}

\* a position lookup as the query remembers it
Resolved(u, g, seat) ==
    Some([user |-> u, game |-> g, members |-> Members(g), seat |-> seat])

\* get_player_hand_handler (a query: it only reads)
get_player_hand_handler(u) ==
    IF player_games[u] = None
    THEN /\ Reply("hand", u, 400, "Not in a game")
         /\ UNCHANGED positions
    ELSE LET g == Unwrap(player_games[u])
         IN  IF g \notin MatchIds \/ matches[g] = None
             THEN /\ Reply("hand", u, 404, "Game not found")
                  /\ UNCHANGED positions
             ELSE IF ~is_active(Unwrap(matches[g]))
             THEN /\ Reply("hand", u, 400, "Game not active")
                  /\ UNCHANGED positions
             ELSE \E player_position \in
                         (IF u \in Members(g) THEN PositionsOf(g, u) ELSE {0}) :
                     /\ positions' = Resolved(u, g, player_position)
                     /\ IF player_position \notin Seats \/ hands[player_position] = None
                        THEN Reply("hand", u, 404, "Hand not found")
                        ELSE Reply("hand", u, 200, "Hand retrieved successfully")

LobbyOps == {"join", "leave", "start", "create"}

\* a request arrives on the first free connection; create_match_handler holds
\* the shared connection's mutex, so one create runs at a time
BeginRequestOf(ops) ==
    \E s \in Slots : \E u \in Users : \E op \in ops : \E pin \in MatchIds :
        /\ commands < MaxCommands
        /\ requests[s] = None
        /\ \A t \in Slots : t < s => requests[t] # None
        /\ op # "join" => pin = 1
        /\ op = "create" =>
               /\ u \notin games
               /\ \A t \in Slots : requests[t] # None => Unwrap(requests[t]).op # "create"
        /\ requests' = [requests EXCEPT ![s] = Some(NewRequest(op, u, pin))]
        /\ commands' = commands + 1
        /\ NoEvent
        /\ UNCHANGED <<matchVars, scoreVars, player_games, match_players, matches,
                       game_pins, games, positions, connections, socketVars, timeVars>>

BeginRequest == BeginRequestOf(LobbyOps)

InFlight(s, op) == requests[s] # None /\ Unwrap(requests[s]).op = op

JoinStep ==
    \E s \in Slots :
        /\ InFlight(s, "join")
        /\ join_match_handler(s)
        /\ UNCHANGED <<game_match, trick_state, scoreVars, commands, positions, connections, socketVars, timeVars>>

LeaveStep ==
    \E s \in Slots :
        /\ InFlight(s, "leave")
        /\ leave_match_handler(s)
        /\ UNCHANGED <<game_match, trick_state, scoreVars, commands, positions, connections, socketVars, timeVars>>

StartStep ==
    \E s \in Slots :
        /\ InFlight(s, "start")
        /\ start_game_request(s)
        /\ UNCHANGED <<game_match, trick_state, scoreVars, commands, positions, connections, socketVars, timeVars>>

CreateStep ==
    \E s \in Slots :
        /\ InFlight(s, "create")
        /\ create_match_handler(s)
        /\ UNCHANGED <<game_match, trick_state, scoreVars, commands, positions, connections, socketVars, timeVars>>

GetHand ==
    \E u \in Users :
        /\ get_player_hand_handler(u)
        /\ NoEvent
        /\ UNCHANGED <<game_match, hands, trick_state, scoreVars, player_games,
                       match_players, matches, game_pins, games, requests, commands,
                       connections, socketVars, timeVars>>

NextLobby == BeginRequest \/ JoinStep \/ LeaveStep \/ StartStep \/ CreateStep \/ GetHand

SpecLobby == InitLobby /\ [][NextLobby]_vars

\* ---------------------------------------------------------------------------
\* Creation and deletion of matches through NormalMatchRepository, each store
\* command one step, from an empty store
\* ---------------------------------------------------------------------------

InitPin ==
    /\ game_match = NewMatch
    /\ hands = [p \in Seats |-> None]
    /\ trick_state = None
    /\ response = NoReply
    /\ NoScore
    /\ NoLobby
    /\ NoEvents

\* NormalMatchRepository::create: HSET game_pins, HSET the record, HSET the
\* host into the players hash, associate_with_game
create(s) ==
    LET r == Unwrap(requests[s])
        g == r.pin
    IN  /\ IF r.pc = 1
           THEN /\ game_pins' = [game_pins EXCEPT ![g] = TRUE]
                /\ UNCHANGED <<player_games, match_players, matches, games, hands>>
           ELSE IF r.pc = 2
           THEN /\ matches' = [matches EXCEPT ![g] = Some(NewMatch)]
                /\ UNCHANGED <<player_games, match_players, game_pins, games, hands>>
           ELSE IF r.pc = 3
           THEN /\ match_players' = [match_players EXCEPT ![g][r.user] = Some("host")]
                /\ UNCHANGED <<player_games, matches, game_pins, games, hands>>
           ELSE /\ player_games' = [player_games EXCEPT ![r.user] = Some(g)]
                /\ UNCHANGED <<match_players, matches, game_pins, games, hands>>
        /\ requests' = [requests EXCEPT ![s] =
                            IF r.pc = 4 THEN None ELSE Some([r EXCEPT !.pc = r.pc + 1])]
        /\ NoEvent
        /\ UNCHANGED response

\* a match with a fresh id and pin is about to be created by its host
BeginCreate ==
    \E s \in Slots : \E g \in MatchIds :
        /\ commands < MaxCommands
        /\ requests[s] = None
        /\ \A t \in Slots : t < s => requests[t] # None
        /\ matches[g] = None /\ ~game_pins[g]
        /\ \A t \in Slots : requests[t] # None => Unwrap(requests[t]).pin # g
        /\ requests' = [requests EXCEPT ![s] = Some(NewRequest("repo_create", HostOf(g), g))]
        /\ commands' = commands + 1
        /\ NoEvent
        /\ UNCHANGED <<matchVars, scoreVars, player_games, match_players, matches,
                       game_pins, games, positions, connections, socketVars, timeVars>>

RepoCreateStep ==
    \E s \in Slots :
        /\ InFlight(s, "repo_create")
        /\ create(s)
        /\ UNCHANGED <<game_match, trick_state, scoreVars, commands, positions, connections, socketVars, timeVars>>

BeginLeave == BeginRequestOf({"leave"})

NextPin == BeginCreate \/ RepoCreateStep \/ BeginLeave \/ LeaveStep

SpecPin == InitPin /\ [][NextPin]_vars

\* ---------------------------------------------------------------------------
\* play_card commands in flight at once: a handler reads the match record, the
\* trick state and the hand, validates, and writes the hand and the trick
\* state; the reads are taken as one step and the writes as one step
\* ---------------------------------------------------------------------------

\* play_card commands sent in all
MaxPlays == 3

\* what steps 2 to 6 of play_card_handler read
ReadStore(player_position) ==
    [game_match |-> game_match, trick_state |-> trick_state,
     hand |-> hands[player_position]]

\* a refusal: nothing is written
Refused(status, detail) == [status |-> status, detail |-> detail]

\* play_card_handler from step 7 on, computed on what the handler has read
play_card_outcome(read, player_position, card_to_play) ==
    IF ~is_playing(read.game_match)
    THEN Refused(400, "Game is not in playing phase")
    ELSE IF read.trick_state = None
    THEN Refused(400, "No active trick found")
    ELSE IF Unwrap(read.trick_state).current_trick.current_player # player_position
    THEN Refused(409, "Not your turn to play")
    ELSE IF read.hand = None
    THEN Refused(400, "Player hand not found")
    ELSE IF ~has_card(Unwrap(read.hand), card_to_play)
    THEN Refused(400, "Card not in hand")
    ELSE IF card_to_play \notin
                get_legal_cards(Unwrap(read.trick_state).current_trick, Unwrap(read.hand))
    THEN Refused(400, "Illegal card play")
    ELSE LET r == play_card(Unwrap(read.trick_state).current_trick, player_position,
                            card_to_play)
         IN  IF ~r.ok
             THEN Refused(500, "Failed to play card")
             ELSE LET g1 == [Unwrap(read.trick_state) EXCEPT !.current_trick = r.t]
                      g2 == IF r.t.is_complete THEN complete_trick(g1).g ELSE g1
                  IN  [status |-> 200,
                       detail |-> IF ~r.t.is_complete THEN "Card played successfully"
                                  ELSE IF g2.game_complete
                                       THEN "Card played - Game complete!"
                                       ELSE "Card played - Trick complete!",
                       hand |-> Some(remove_card(Unwrap(read.hand), card_to_play)),
                       trick_state |-> Some(g2),
                       events |-> {broadcast("card_played")}
                                      \cup (IF r.t.is_complete
                                            THEN {broadcast("trick_completed")}
                                            ELSE {})]

\* a play_card command arrives and its handler reads the store
BeginPlay ==
    \E s \in Slots : \E player_position \in Seats :
    \E card \in PlayRequests(player_position) :
        /\ commands < MaxPlays
        /\ requests[s] = None
        /\ \A t \in Slots : t < s => requests[t] # None
        /\ requests' = [requests EXCEPT ![s] =
                            Some([op |-> "play_card", user |-> player_position,
                                  card |-> card,
                                  snapshot |-> ReadStore(player_position)])]
        /\ commands' = commands + 1
        /\ NoEvent
        /\ UNCHANGED <<matchVars, scoreVars, player_games, match_players, matches,
                       game_pins, games, positions, connections, socketVars, timeVars>>

\* the handler validates what it has read, writes and answers
FinishPlay ==
    \E s \in Slots :
        /\ requests[s] # None
        /\ LET r == Unwrap(requests[s])
               o == play_card_outcome(r.snapshot, r.user, r.card)
           IN  /\ Reply("play_card", r.user, o.status, o.detail)
               /\ IF o.status = 200
                  THEN /\ hands' = [hands EXCEPT ![r.user] = o.hand]
                       /\ trick_state' = o.trick_state
                       /\ Publish(o.events)
                  ELSE /\ UNCHANGED <<hands, trick_state>>
                       /\ NoEvent
        /\ requests' = [requests EXCEPT ![s] = None]
        /\ UNCHANGED <<game_match, scoreVars, player_games, match_players, matches,
                       game_pins, games, commands, positions, connections, socketVars, timeVars>>

NextRace == BeginPlay \/ FinishPlay

SpecRace == InitPlaying /\ [][NextRace]_vars

\* ---------------------------------------------------------------------------
\* Sessions of the players of the match in play; a player is named by its seat
\* ---------------------------------------------------------------------------

\* websocket sessions open at once
MaxConnections == 1

\* handle_socket: the session's sender is put into user_connections and the
\* user into subscribed_players
Connect ==
    \E user_id \in Seats \ connections :
        /\ Cardinality(connections) < MaxConnections
        /\ connections' = connections \cup {user_id}
        /\ NoEvent
        /\ UNCHANGED <<matchVars, scoreVars, lobbyVars, socketVars, timeVars>>

\* handle_socket after the socket has closed
Disconnect ==
    \E user_id \in connections :
        /\ connections' = connections \ {user_id}
        /\ NoEvent
        /\ UNCHANGED <<matchVars, scoreVars, lobbyVars, socketVars, timeVars>>

NextEvents == Next \/ Connect \/ Disconnect

SpecEvents == Init /\ [][NextEvents]_vars

\* ---------------------------------------------------------------------------
\* The timestamp of an initial-state snapshot (websocket/timestamp.rs)
\* ---------------------------------------------------------------------------

\* milliseconds the clock is followed for
MaxClock == 1

\* TimestampManager::now
now == clock

\* TimestampManager::snapshot_timestamp
snapshot_timestamp == now + 1

\* a millisecond passes
Tick ==
    /\ clock < MaxClock
    /\ clock' = clock + 1
    /\ NoEvent
    /\ UNCHANGED <<snapshot, matchVars, scoreVars, lobbyVars, connections, socketVars>>

\* StateBuilder::send_initial_state: the timestamp is taken first
BeginSnapshot ==
    /\ snapshot = None
    /\ snapshot' = Some([timestamp |-> snapshot_timestamp, state |-> None])
    /\ NoEvent
    /\ UNCHANGED <<clock, matchVars, scoreVars, lobbyVars, connections, socketVars>>

\* ... and then the match is read from the store and the state built from it
ReadSnapshot ==
    /\ snapshot # None
    /\ Unwrap(snapshot).state = None
    /\ snapshot' = Some([Unwrap(snapshot) EXCEPT !.state = Some(game_match)])
    /\ NoEvent
    /\ UNCHANGED <<clock, matchVars, scoreVars, lobbyVars, connections, socketVars>>

NextSnapshot == StartGame \/ MakeBid \/ PassBid \/ Tick \/ BeginSnapshot \/ ReadSnapshot

\* a match started and bid for while a snapshot of it is built
SpecSnapshot == Init /\ [][NextSnapshot]_vars

\* ---------------------------------------------------------------------------
\* The handle_socket tasks (websocket/handler.rs), one task per session
\* ---------------------------------------------------------------------------

\* users that open websocket sessions
NumSocketUsers == 2

SocketUsers == 1..NumSocketUsers

\* a handle_socket task after it has registered its sender: it serves inbound
\* messages ("open") while its pump drains the queue to the wire
NewSession(user_id) ==
    [user |-> user_id, pc |-> "open", games_to_remove |-> {}, queue |-> 0,
     pump |-> "running"]

Live(i) == sessions[i] # None /\ sessions[i][1].pc = "open"

\* the local members of a game: its game_players entry, if there is one
LocalMembers(g) ==
    IF app_state.game_players[g] = None THEN {} ELSE Unwrap(app_state.game_players[g])

\* the users user_connections holds a sender for
Registered(uc) == {u \in DOMAIN uc : uc[u] # None}

\* handle_socket up to its receive loop: the session's sender replaces whatever
\* user_connections held for the user
OpenSocket ==
    \E i \in SessionIds : \E user_id \in SocketUsers :
        /\ sessions[i] = None
        /\ \A j \in SessionIds : j < i => sessions[j] # None
        /\ sessions' = [sessions EXCEPT ![i] = Some(NewSession(user_id))]
        /\ app_state' = [app_state EXCEPT !.user_connections[user_id] = Some(i)]
        /\ connections' = connections \cup {user_id}
        /\ NoEvent
        /\ UNCHANGED <<timeVars, matchVars, scoreVars, lobbyVars, listener>>

\* subscribe_user_to_game for the user of a serving session
SubscribeUserToGame ==
    \E i \in SessionIds : \E game_id \in MatchIds :
        /\ Live(i)
        /\ sessions[i][1].user \notin LocalMembers(game_id)
        /\ app_state' =
               [app_state EXCEPT
                   !.game_players[game_id] =
                       Some(LocalMembers(game_id) \cup {sessions[i][1].user}),
                   !.subscribed_games = @ \cup {game_id}]
        /\ NoEvent
        /\ UNCHANGED <<timeVars, matchVars, scoreVars, lobbyVars, connections, sessions, listener>>

\* the pump's sender.send fails: the forward task leaves its loop
PumpFails ==
    \E i \in SessionIds :
        /\ Live(i)
        /\ sessions[i][1].pump = "running"
        /\ sessions' = [sessions EXCEPT ![i][1].pump = "failed"]
        /\ NoEvent
        /\ UNCHANGED <<timeVars, matchVars, scoreVars, lobbyVars, connections, app_state, listener>>

\* receiver.next() yields None or an error: the receive loop ends
CloseSocket ==
    \E i \in SessionIds :
        /\ Live(i)
        /\ sessions' = [sessions EXCEPT ![i][1].pc = "remove_connection"]
        /\ NoEvent
        /\ UNCHANGED <<timeVars, matchVars, scoreVars, lobbyVars, connections, app_state, listener>>

\* the clean-up after the receive loop, in its three parts: remove the user
\* from user_connections (and subscribed_players); retain on every
\* game_players entry, collecting the games left empty; remove those games
\* from subscribed_games and game_players
TeardownOf(i) ==
    LET s == sessions[i][1]
        retained == [g \in MatchIds |->
                        IF app_state.game_players[g] = None THEN None
                        ELSE Some(Unwrap(app_state.game_players[g]) \ {s.user})]
        emptied == {g \in MatchIds : retained[g] = Some({})}
    IN  /\ sessions[i] # None
        /\ IF s.pc = "remove_connection"
           THEN /\ app_state' = [app_state EXCEPT !.user_connections[s.user] = None]
                /\ connections' = connections \ {s.user}
                /\ sessions' = [sessions EXCEPT ![i][1].pc = "retain"]
           ELSE IF s.pc = "retain"
           THEN /\ app_state' = [app_state EXCEPT !.game_players = retained]
                /\ sessions' = [sessions EXCEPT
                                    ![i][1].pc = IF emptied = {} THEN "done"
                                                 ELSE "unsubscribe",
                                    ![i][1].games_to_remove = emptied]
                /\ UNCHANGED connections
           ELSE /\ s.pc = "unsubscribe"
                /\ app_state' =
                       [app_state EXCEPT
                           !.subscribed_games = @ \ s.games_to_remove,
                           !.game_players =
                               [g \in MatchIds |->
                                   IF g \in s.games_to_remove THEN None ELSE @[g]]]
                /\ sessions' = [sessions EXCEPT ![i][1].pc = "done"]
                /\ UNCHANGED connections
        /\ NoEvent
        /\ UNCHANGED <<timeVars, matchVars, scoreVars, lobbyVars, listener>>

Teardown == \E i \in SessionIds : TeardownOf(i)

\* the outbound queue of a session: mpsc::channel(100), scaled down
QueueCapacity == 2

\* players one event can name
MaxAffected == 2

\* the listener takes an event off its subscription: affected_players is the
\* list of users it will send to, in order
ReceiveEvent ==
    \E n \in 1..MaxAffected : \E players \in [1..n -> SocketUsers] :
        /\ listener = <<>>
        /\ listener' = players
        /\ NoEvent
        /\ UNCHANGED <<timeVars, matchVars, scoreVars, lobbyVars, connections, app_state, sessions>>

\* the receiver of session i's channel is gone: the forward task has left its
\* loop or was aborted
ReceiverDropped(i) == sessions[i][1].pump = "failed" \/ sessions[i][1].pc = "done"

\* tx.send(message).await on a session's sender: an error at once when the
\* receiver is gone, and otherwise it completes when the queue has room
send(i) ==
    IF ReceiverDropped(i) THEN UNCHANGED sessions
    ELSE /\ sessions[i][1].queue < QueueCapacity
         /\ sessions' = [sessions EXCEPT ![i][1].queue = @ + 1]

\* the listener's loop over the affected players, one player a step: a player
\* without a user_connections entry is passed over, the others are sent to
ListenerSend ==
    /\ listener # <<>>
    /\ LET entry == app_state.user_connections[Head(listener)]
       IN  IF entry = None THEN UNCHANGED sessions ELSE send(Unwrap(entry))
    /\ listener' = Tail(listener)
    /\ NoEvent
    /\ UNCHANGED <<timeVars, matchVars, scoreVars, lobbyVars, connections, app_state>>

\* the pump takes a message off the queue and the wire accepts it
PumpSend ==
    \E i \in SessionIds :
        /\ sessions[i] # None
        /\ ~ReceiverDropped(i)
        /\ sessions[i][1].queue > 0
        /\ sessions' = [sessions EXCEPT ![i][1].queue = @ - 1]
        /\ NoEvent
        /\ UNCHANGED <<timeVars, matchVars, scoreVars, lobbyVars, connections, app_state, listener>>

NextQueue ==
    \/ OpenSocket
    \/ PumpFails
    \/ CloseSocket
    \/ Teardown
    \/ ReceiveEvent
    \/ ListenerSend
    \/ PumpSend

SpecQueue == Init /\ [][NextQueue]_vars

NextSocket == OpenSocket \/ SubscribeUserToGame \/ PumpFails \/ CloseSocket \/ Teardown

SpecSocket == Init /\ [][NextSocket]_vars

\* the tasks run: a clean-up that has begun goes on. When a socket closes is
\* up to the client and the network.
SpecSocketLive == SpecSocket /\ WF_vars(Teardown)

\* ---------------------------------------------------------------------------
\* The join event of the message channel
\* ---------------------------------------------------------------------------

\* EXISTS game:{id}: matches are stored under normal_match:{id} and no handler
\* writes a key game:{id}
game_exists(game_id) == FALSE

\* a message put on the user's outbound queue, if the user has a connection
SendTo(user_id, event) ==
    IF user_id \in connections THEN {<<user_id, event>>} ELSE {}

\* the handler queues messages and publishes nothing
Send(messages) ==
    /\ sent' = messages
    /\ published' = {}

\* StateBuilder::send_initial_state: the snapshot message built for the
\* match's status. No handler calls it.
send_initial_state(user_id, status) ==
    SendTo(user_id,
           CASE status = "waiting" -> "initial_state_waiting"
             [] status = "dealing" -> "initial_state_dealing"
             [] status = "bidding" -> "initial_state_bidding"
             [] status = "playing" -> "initial_state_playing"
             [] status = "completed" -> "initial_state_completed"
             [] OTHER -> "error")

\* handle_join_event. The status is read with HGET game:{id} status; the key
\* does not exist, the reply is nil and the handler returns the conversion
\* error before it writes anything
handle_join_event(user_id, game_id) ==
    /\ IF ~game_exists(game_id)
       THEN Send(SendTo(user_id, "join_error"))
       ELSE IF get_player_game(user_id) = Some(game_id)
       THEN Send(SendTo(user_id, "already_joined"))
       ELSE IF get_player_game(user_id) # None
       THEN Send(SendTo(user_id, "join_error"))
       ELSE Send({})
    /\ UNCHANGED lobbyStore

\* a join message arrives from a connected user
JoinEventOf(user_id, game_id) ==
    /\ commands < MaxCommands
    /\ user_id \in connections
    /\ handle_join_event(user_id, game_id)
    /\ commands' = commands + 1
    /\ UNCHANGED <<game_match, trick_state, response, scoreVars, requests,
                   positions, connections, socketVars, timeVars>>

JoinEvent == \E user_id \in Users : \E game_id \in MatchIds : JoinEventOf(user_id, game_id)

\* events/bidding.rs broadcast_to_game_players: the message goes on the queue
\* of every listed player that has a user_connections entry
broadcast_to_game_players(players, event) ==
    UNION {SendTo(player, event) : player \in players}

\* handle_bid_made_event: the fields come from the client's message; the
\* players are read from the store and the position is checked against their
\* number
handle_bid_made_event(game_id, bidder_position) ==
    /\ IF bidder_position >= Cardinality(Members(game_id))
       THEN Send({})
       ELSE Send(broadcast_to_game_players(Members(game_id), "bid_made"))
    /\ UNCHANGED lobbyStore

\* handle_hand_update_event: a hand_updated message goes to the player_id the
\* client names
handle_hand_update_event(player_id) ==
    /\ Send(SendTo(player_id, "hand_updated"))
    /\ UNCHANGED lobbyStore

\* a connected user sends a bid_made or a hand_update message
GameEvent ==
    \E user_id \in Users :
        /\ commands < MaxCommands
        /\ user_id \in connections
        /\ \/ \E game_id \in MatchIds : \E bidder_position \in Seats :
                 handle_bid_made_event(game_id, bidder_position)
           \/ \E player_id \in Users : handle_hand_update_event(player_id)
        /\ commands' = commands + 1
        /\ UNCHANGED <<game_match, trick_state, response, scoreVars, requests,
                       positions, connections, socketVars, timeVars>>

BeginJoin == BeginRequestOf({"join"})

NextInbound == BeginJoin \/ JoinStep \/ GameEvent

SpecInbound == InitLobby /\ [][NextInbound]_vars

NextSession == BeginJoin \/ JoinStep \/ JoinEvent

SpecSession == InitLobby /\ [][NextSession]_vars

\* ------------------------------------------------------------------------
\* Claims

\* how many times a card occurs in a sequence of cards
CountIn(cards, c) == Cardinality({i \in DOMAIN cards : cards[i] = c})

\* how many times a card occurs on the table of a trick
CountInTrick(t, c) ==
    Cardinality({i \in DOMAIN t.cards_played : t.cards_played[i][2] = c})

RECURSIVE SumOver(_, _)
SumOver(f, S) ==
    IF S = {} THEN 0
    ELSE LET x == CHOOSE y \in S : TRUE IN f[x] + SumOver(f, S \ {x})

\* how many times a card occurs in the stored hands, the completed tricks and
\* the current trick together
Occurrences(c) ==
    LET g == Unwrap(trick_state)
    IN  SumOver([p \in Seats |-> CountIn(HandOf(p), c)], Seats)
        + SumOver([i \in DOMAIN g.completed_tricks |->
                      CountInTrick(g.completed_tricks[i], c)],
                  DOMAIN g.completed_tricks)
        + CountInTrick(g.current_trick, c)

\* C1: while the match is in status playing, the four stored hands, the
\* completed tricks and the current trick together hold each of the 32 cards
\* exactly once
C1_CardsConserved ==
    (game_match.status = "playing" /\ trick_state # None) =>
        \A c \in AllCards : Occurrences(c) = 1

\* the seat may bid or pass now: it is the stored current_bidder
OnTurnToBid(seat) == game_match.current_bidder = Some(seat)

\* the seat may play now: it is the current trick's current_player
OnTurnToPlay(seat) ==
    trick_state # None /\ Unwrap(trick_state).current_trick.current_player = seat

Accepted(r) == r.status = 200

\* C2: a bid or pass is accepted only from the seat that is current_bidder, a
\* card play only from the seat that is the current trick's current_player; a
\* command from any other seat is rejected and leaves the store as it was
C2_OnlySeatOnTurn ==
    [][/\ (response'.op \in {"bid", "pass"} /\ Accepted(response'))
            => OnTurnToBid(response'.seat)
       /\ (response'.op = "play_card" /\ Accepted(response'))
            => OnTurnToPlay(response'.seat)
       /\ (response'.op \in {"bid", "pass"} /\ ~OnTurnToBid(response'.seat))
            => (~Accepted(response') /\ UNCHANGED storeVars)
       /\ (response'.op = "play_card" /\ ~OnTurnToPlay(response'.seat))
            => (~Accepted(response') /\ UNCHANGED storeVars)]_vars

\* a seat that is not on turn has just been refused while a trick is under way
C2_Witness ==
    /\ response.op = "play_card"
    /\ response.status = 409
    /\ trick_state # None
    /\ Len(Unwrap(trick_state).current_trick.cards_played) >= 2
    /\ ~OnTurnToPlay(response.seat)

\* what the bidding rule allows over the current highest bid
RuleAllowsBid(m, length, suit) ==
    \/ m.highest_bid_length = None
    \/ length > Unwrap(m.highest_bid_length)
    \/ /\ length = Unwrap(m.highest_bid_length)
       /\ suit = "clubs"
       /\ m.highest_bid_suit # Some("clubs")

\* C3: at the bidder's turn a bid of length 5..8 in one of the four suits is
\* legal exactly when there is no current bid, or it is longer than the highest
\* bid, or it is as long, in clubs, and the highest bid is not in clubs
C3_BidLegality ==
    (game_match.status = "bidding" /\ game_match.current_bidder # None) =>
        \A length \in 5..8 : \A suit \in Suits :
            (is_valid_bid(game_match, Unwrap(game_match.current_bidder),
                          length, suit) = "ok")
                <=> RuleAllowsBid(game_match, length, suit)

\* bidding goes on over a highest bid of six clubs, where a further six clubs
\* is illegal and seven of anything is legal
C3_Witness ==
    /\ game_match.status = "bidding"
    /\ game_match.current_bidder # None
    /\ game_match.highest_bid_length = Some(6)
    /\ game_match.highest_bid_suit = Some("clubs")
    /\ response.op = "bid"
    /\ Accepted(response)

\* the trumps of a suit in a stored hand: its permanent trumps and its cards of
\* that suit
TrumpsHeld(seat, suit) ==
    Cardinality({i \in DOMAIN HandOf(seat) :
                    \/ is_permanent_trump(HandOf(seat)[i])
                    \/ HandOf(seat)[i].suit = suit})

\* C4: a bid (length, suit) is accepted only if the caller's stored hand holds at
\* least length trumps of suit; with fewer it is rejected and the match record
\* stays as it was
C4_BidNeedsTrumps ==
    [][response'.op = "bid" =>
          \A length \in BidLengths : \A suit \in BidSuits :
              make_bid_handler(response'.seat, length, suit) =>
                  /\ Accepted(response') => TrumpsHeld(response'.seat, suit) >= length
                  /\ TrumpsHeld(response'.seat, suit) < length =>
                         (~Accepted(response') /\ game_match' = game_match)]_vars

\* a seat has bid exactly as many trumps as it holds, and the bid stands
C4_Witness ==
    /\ response.op = "bid"
    /\ Accepted(response)
    /\ game_match.highest_bidder = Some(response.seat)
    /\ game_match.highest_bid_length =
           Some(TrumpsHeld(response.seat, Unwrap(game_match.highest_bid_suit)))

\* the passes made since the highest bid, before the seat on turn acts
PassesSinceBid ==
    (Unwrap(game_match.current_bidder) - Unwrap(game_match.highest_bidder) + 3) % 4

\* the seat on turn passes, and the pass is taken
PassAccepted ==
    /\ response'.op = "pass"
    /\ Accepted(response')
    /\ OnTurnToBid(response'.seat)

\* C5: once a bid stands, bidding ends exactly on the third pass in a row after
\* it: that pass sets status playing, trump_suit to the highest bid's suit,
\* trump_declarer to the highest bidder and current_leader to (dealer+1) mod 4,
\* and an earlier pass leaves the match in bidding
C5_ThirdPassEndsBidding ==
    [][(PassAccepted /\ game_match.highest_bidder # None) =>
          IF PassesSinceBid = 2
          THEN /\ game_match'.status = "playing"
               /\ game_match'.trump_suit = game_match.highest_bid_suit
               /\ game_match'.trump_declarer = game_match.highest_bidder
               /\ game_match'.current_leader =
                      Some((Unwrap(game_match.dealer_position) + 1) % 4)
          ELSE game_match'.status = "bidding"]_vars

\* the hands are a deal that deal_until_valid can return: four hands of eight
\* cards, the 32 cards once each, some seat with five trumps of a suit
ValidDeal(hs) ==
    /\ \A p \in Seats : hs[p] # None /\ Len(Unwrap(hs[p])) = 8
    /\ \A c \in AllCards : \E p \in Seats : c \in Range(Unwrap(hs[p]))
    /\ \E p \in Seats : \E s \in Suits :
           Cardinality({i \in 1..8 : is_trump(Unwrap(hs[p])[i], s)}) >= 5

\* the fourth pass in a row with no bid made: the dealer, last to speak, passes
FourthPassNoBid ==
    /\ PassAccepted
    /\ game_match.highest_bidder = None
    /\ game_match.current_bidder = game_match.dealer_position

\* what the redeal leaves apart from the phase: the same dealer, no highest
\* bid, the seat after the dealer to bid, and freshly dealt hands
RedealOutcome ==
    /\ game_match'.dealer_position = game_match.dealer_position
    /\ game_match'.highest_bid_length = None
    /\ game_match'.highest_bidder = None
    /\ game_match'.highest_bid_suit = None
    /\ game_match'.current_bidder =
           Some((Unwrap(game_match.dealer_position) + 1) % 4)
    /\ ValidDeal(hands')

\* C6 as stated: after four passes with no bid the phase is dealing, with the
\* same dealer, the bidding fields reset, the seat after the dealer to bid and
\* the hands re-dealt
C6_RedealLeavesDealing ==
    [][FourthPassNoBid => (game_match'.status = "dealing" /\ RedealOutcome)]_vars

\* C6: after four passes with no bid the match is back in bidding, with the
\* same dealer, the bidding fields reset, the seat after the dealer to bid and
\* the hands re-dealt
C6_RedealLeavesBidding ==
    [][FourthPassNoBid => (game_match'.status = "bidding" /\ RedealOutcome)]_vars

\* the cards have just been redealt after four passes
C6_Witness ==
    /\ response.op = "pass"
    /\ response.detail = "All players passed - cards redealt"
    /\ game_match.status = "bidding"
    /\ game_match.highest_bidder = None
    /\ game_match.current_bidder # None
    /\ game_match.dealer_position # None
    /\ Unwrap(game_match.current_bidder) =
           (Unwrap(game_match.dealer_position) + 1) % 4

\* the current trick as stored
CurrentTrick == Unwrap(trick_state).current_trick

\* the cards with which a hand can follow the suit led: the cards of that suit
\* that are not permanent trumps
FollowCards(hand, lead) ==
    {c \in Range(hand) : Some(c.suit) = lead /\ ~is_permanent_trump(c)}

\* the cards of a hand that the follow-suit rule lets a seat play
RuleAllowsCards(hand, lead) ==
    IF FollowCards(hand, lead) # {} THEN FollowCards(hand, lead) ELSE Range(hand)

\* C7: when the trick has a lead suit, the seat on turn that holds a card of the
\* lead suit that is no permanent trump may play only such a card, a permanent
\* trump never counts as following suit, and a seat without such a card may play
\* any card of its hand
C7_FollowSuit ==
    [][(/\ response'.op = "play_card"
        /\ game_match.status = "playing"
        /\ OnTurnToPlay(response'.seat)
        /\ CurrentTrick.lead_suit # None) =>
          \A card \in Range(HandOf(response'.seat)) :
              play_card_handler(response'.seat, card) =>
                  (Accepted(response') <=>
                      card \in RuleAllowsCards(HandOf(response'.seat),
                                               CurrentTrick.lead_suit))]_vars

\* the seats whose card in a full trick no other card of the trick beats
UnbeatenSeats(t) ==
    {t.cards_played[k][1] :
        k \in {i \in 1..4 : \A j \in (1..4) \ {i} :
                  ~beats(t.cards_played[j][2], t.cards_played[i][2],
                         t.trump_suit, Unwrap(t.lead_suit))}}

\* C8: for every trump suit and every full trick of four distinct cards, exactly
\* one card is beaten by no other card of the trick, the winner the reducer
\* returns is the seat that played it, and no card beats itself
C8_UniqueWinner ==
    LET t == Unwrap(trick_state).current_trick
    IN  t.is_complete =>
            /\ Cardinality(CardsOfTrick(t)) = 4
            /\ Cardinality(UnbeatenSeats(t)) = 1
            /\ t.trick_winner # None
            /\ UnbeatenSeats(t) = {Unwrap(t.trick_winner)}
            /\ \A c \in CardsOfTrick(t) :
                   ~beats(c, c, t.trump_suit, Unwrap(t.lead_suit))

\* a full trick in which a permanent trump played second wins over the ace led
C8_Witness ==
    LET t == Unwrap(trick_state).current_trick
    IN  /\ t.is_complete
        /\ ~is_trump(t.cards_played[1][2], t.trump_suit)
        /\ is_permanent_trump(t.cards_played[2][2])
        /\ t.trick_winner = Some(t.cards_played[2][1])

\* a card completes the current trick: the seat on turn plays the fourth card
TrickCompletes ==
    /\ response'.op = "play_card"
    /\ Accepted(response')
    /\ trick_state # None
    /\ Len(CurrentTrick.cards_played) = 3

\* the card that left the hand of the seat that played
CardPlayed == CHOOSE c \in Range(HandOf(response'.seat)) :
                 c \notin Range(Unwrap(hands'[response'.seat]))

\* the four cards on the table once the played card is added
FullTrick ==
    [cards_played |-> Append(CurrentTrick.cards_played, <<response'.seat, CardPlayed>>),
     trump_suit |-> CurrentTrick.trump_suit,
     lead_suit |-> Some(CurrentTrick.cards_played[1][2].suit)]

TrickPoints ==
    SumOver([i \in 1..4 |-> point_value(FullTrick.cards_played[i][2])], 1..4)

\* C9: when a trick completes, the team of the winning seat gains exactly the
\* point values of the four cards and one trick, the other team's tallies stay,
\* and in tricks 1..7 the winner is the current player of the next trick
C9_TrickTally ==
    [][TrickCompletes =>
          LET g == Unwrap(trick_state)
              h == Unwrap(trick_state')
              winner == CHOOSE w \in UnbeatenSeats(FullTrick) : TRUE
              won == IF winner \in {g.trump_team[1], g.trump_team[2]} THEN 1 ELSE 2
              lost == 3 - won
          IN  /\ UnbeatenSeats(FullTrick) # {}
              /\ h.points_accumulated[won] = g.points_accumulated[won] + TrickPoints
              /\ h.tricks_won[won] = g.tricks_won[won] + 1
              /\ h.points_accumulated[lost] = g.points_accumulated[lost]
              /\ h.tricks_won[lost] = g.tricks_won[lost]
              /\ g.current_trick.trick_number <= 7 =>
                     /\ h.current_trick.current_player = winner
                     /\ h.current_trick.trick_number = g.current_trick.trick_number + 1
                     /\ h.current_trick.cards_played = <<>>]_vars

\* the opponents of the declarer have just won a trick that carried points, and
\* the winner is to lead the next one
C9_Witness ==
    /\ trick_state # None
    /\ response.op = "play_card"
    /\ response.detail = "Card played - Trick complete!"
    /\ Unwrap(trick_state).points_accumulated[2] > 0
    /\ Unwrap(trick_state).tricks_won[1] > 0
    /\ CurrentTrick.cards_played = <<>>
    /\ CurrentTrick.current_player \notin
           {Unwrap(trick_state).trump_team[1], Unwrap(trick_state).trump_team[2]}

\* the points both teams have so far
PointsSoFar ==
    Unwrap(trick_state).points_accumulated[1] + Unwrap(trick_state).points_accumulated[2]

\* the point values of the cards in the completed tricks
PointsInCompletedTricks ==
    LET done == Unwrap(trick_state).completed_tricks
    IN  SumOver([i \in DOMAIN done |->
                    SumOver([k \in DOMAIN done[i].cards_played |->
                                point_value(done[i].cards_played[k][2])],
                            DOMAIN done[i].cards_played)],
                DOMAIN done)

AllTricksComplete == Len(Unwrap(trick_state).completed_tricks) = 8

\* C10 as stated: the two teams' points never exceed 120 together, and they make
\* 120 exactly when all eight tricks are complete
C10_Sum120IffComplete ==
    trick_state # None =>
        /\ PointsSoFar <= 120
        /\ (PointsSoFar = 120) <=> AllTricksComplete

\* C10: the two teams' points are together the point values of the cards in the
\* completed tricks, never more than 120, and 120 once all eight tricks are
\* complete
C10_SumOfCompletedTricks ==
    trick_state # None =>
        /\ PointsSoFar <= 120
        /\ PointsSoFar = PointsInCompletedTricks
        /\ AllTricksComplete => PointsSoFar = 120

\* all eight tricks are complete and both teams have taken points
C10_Witness ==
    /\ trick_state # None
    /\ AllTricksComplete
    /\ Unwrap(trick_state).game_complete
    /\ Unwrap(trick_state).points_accumulated[1] > 0
    /\ Unwrap(trick_state).points_accumulated[2] > 0
    /\ PointsSoFar = 120

\* ------------------------------------------------------------------------
\* C11: every final tally with T + O = 120 is scored by the Sjavs table: all
\* 8 tricks to the trump team alone 24 (clubs) or 16; all 8 not alone 16 or
\* 12; all 8 to the opponents 16 to them whatever the trump; 60-60 nothing;
\* 90..120 trump team 8 or 4; 61..89 4 or 2; 31..59 opponents 8 or 4; 0..30
\* opponents 16 or 8; and never points to both teams

\* the table row that applies to a tally, as <<trump team, opponents>>
TableOutcome(s) ==
    LET clubs == s.trump_suit = "clubs"
        T == s.trump_team_points
    IN  IF s.trump_team_tricks = TotalTricks /\ s.individual_vol
        THEN <<IF clubs THEN 24 ELSE 16, 0>>
        ELSE IF s.trump_team_tricks = TotalTricks
        THEN <<IF clubs THEN 16 ELSE 12, 0>>
        ELSE IF s.opponent_team_tricks = TotalTricks
        THEN <<0, 16>>
        ELSE IF T = 60 /\ s.opponent_team_points = 60
        THEN <<0, 0>>
        ELSE IF T >= 90
        THEN <<IF clubs THEN 8 ELSE 4, 0>>
        ELSE IF T >= 61
        THEN <<IF clubs THEN 4 ELSE 2, 0>>
        ELSE IF T >= 31
        THEN <<0, IF clubs THEN 8 ELSE 4>>
        ELSE <<0, IF clubs THEN 16 ELSE 8>>

C11_ScoringTable ==
    (scoring # None /\ game_result # None) =>
        LET s == Unwrap(scoring)
            r == Unwrap(game_result)
        IN  s.trump_team_points + s.opponent_team_points = TotalPoints =>
                /\ <<r.trump_team_score, r.opponent_team_score>> = TableOutcome(s)
                /\ r.trump_team_score = 0 \/ r.opponent_team_score = 0

\* a tally of 89 points to the trump team, not all tricks, has been scored
C11_Witness ==
    /\ scoring # None
    /\ game_result # None
    /\ Unwrap(scoring).trump_team_points = 89
    /\ Unwrap(scoring).trump_team_tricks = 5
    /\ Unwrap(game_result).trump_team_score = 2

\* ------------------------------------------------------------------------
\* Cross claims

\* the step applied a game result to the cross
GameApplied == cross_result' # None /\ game_result' # None

\* the game just applied was decided: one side scored
Decided(g) == g.trump_team_score > 0 \/ g.opponent_team_score > 0

\* what the winner of a decided game scored
OutcomePoints(g) ==
    IF g.trump_team_score > 0 THEN g.trump_team_score ELSE g.opponent_team_score

\* by how much a counter went down in the step
TrumpDelta == Unwrap(cross_state).trump_team_score - Unwrap(cross_state').trump_team_score

OpponentDelta ==
    Unwrap(cross_state).opponent_team_score - Unwrap(cross_state').opponent_team_score

\* both counters stand at 24 until a game has been applied
StartAt24 ==
    (cross_state # None /\ cross_result = None) =>
        /\ Unwrap(cross_state).trump_team_score = 24
        /\ Unwrap(cross_state).opponent_team_score = 24

C13_TieBonus ==
    [][GameApplied =>
          LET g == Unwrap(game_result')
              pending == Unwrap(cross_state).next_game_bonus
          IN  /\ ~Decided(g) =>
                     /\ TrumpDelta = 0
                     /\ OpponentDelta = 0
                     /\ Unwrap(cross_state').next_game_bonus = 2
              /\ (Decided(g) /\ pending = 2) =>
                     /\ Unwrap(cross_state').next_game_bonus = 0
                     /\ \/ TrumpDelta = OutcomePoints(g) + 2 /\ OpponentDelta = 0
                        \/ OpponentDelta = OutcomePoints(g) + 2 /\ TrumpDelta = 0]_vars

\* C14: a cross win is credited on the scoring step at which a team's counter
\* reaches 0 or below, exactly 0 included: the cross is marked complete and
\* that team's crosses-won count goes up by one; no cross is credited while
\* both counters are above 0
C14_CrossCredited ==
    [][GameApplied =>
          LET c == Unwrap(cross_state)
              d == Unwrap(cross_state')
          IN  /\ d.trump_team_score <= 0 =>
                     d.cross_complete /\ d.trump_team_crosses = c.trump_team_crosses + 1
              /\ d.opponent_team_score <= 0 =>
                     d.cross_complete /\ d.opponent_team_crosses = c.opponent_team_crosses + 1
              /\ (d.trump_team_score > 0 /\ d.opponent_team_score > 0) =>
                     /\ ~d.cross_complete
                     /\ d.trump_team_crosses = c.trump_team_crosses
                     /\ d.opponent_team_crosses = c.opponent_team_crosses]_vars

\* the matches a user belongs to: those whose players hash holds the user and
\* the one player_games associates the user with
MatchesOf(u) ==
    {m \in MatchIds : match_players[m][u] # None}
        \cup (IF player_games[u] = None THEN {} ELSE {Unwrap(player_games[u])})

\* C15: a user is a member of at most one match at any time, under every
\* interleaving of create, join and leave, concurrent commands of one user
\* included
C15_AtMostOneMatch ==
    \A u \in Users : Cardinality(MatchesOf(u)) <= 1

\* C16: every match whose status is bidding or playing has exactly 4 players,
\* under every interleaving of join, leave and start_game
C16_FourPlayers ==
    \A m \in MatchIds :
        (matches[m] # None /\ Unwrap(matches[m]).status \in {"bidding", "playing"})
            => Cardinality(Members(m)) = 4

\* C20: the host resolves to position 0, and a later lookup by the same user in
\* the same match with the same players resolves to the same position
C20_StablePosition ==
    [][positions' # None =>
          LET new == Unwrap(positions')
          IN  /\ new.user = HostOf(new.game) => new.seat = 0
              /\ (/\ positions # None
                  /\ Unwrap(positions).user = new.user
                  /\ Unwrap(positions).game = new.game
                  /\ Unwrap(positions).members = new.members)
                     => Unwrap(positions).seat = new.seat]_vars

\* the status changes the state machine allows
LegalTransitions ==
    {<<"waiting", "dealing">>, <<"dealing", "bidding">>, <<"bidding", "dealing">>,
     <<"bidding", "playing">>, <<"playing", "completed">>}
        \cup {<<s, "cancelled">> : s \in {"waiting", "dealing", "bidding", "playing"}}

\* the status changes one command can store: start_game goes from waiting
\* through dealing to bidding before it saves the record
CommandChanges == LegalTransitions \cup {<<"waiting", "bidding">>}

\* what the transitions the handlers use make of a record
TransitionsOf(m) ==
    {start_dealing(m, d) : d \in Seats}
        \cup {start_bidding(m), reset_for_redeal(m), mark_completed(m)}
        \cup {complete_bidding(m, s, p) : s \in Suits, p \in Seats}

\* the transitions into the status `to` change the status only from a source
\* the state machine allows, whatever status the record has
SourceChecked(to) ==
    \A s \in Statuses :
        \A n \in TransitionsOf([game_match EXCEPT !.status = s]) :
            (n.status = to /\ s # to) => <<s, to>> \in LegalTransitions

\* C17: the stored status changes only along the legal transitions, and the
\* transition that made the change checks the source state
C17_LegalStatusChanges ==
    [][game_match'.status # game_match.status =>
          /\ <<game_match.status, game_match'.status>> \in CommandChanges
          /\ SourceChecked(game_match'.status)]_vars

\* C17, the part about the commands alone: the stored status changes only
\* along the legal transitions
C17_StoredStatusChanges ==
    [][game_match'.status # game_match.status =>
          <<game_match.status, game_match'.status>> \in CommandChanges]_vars

\* the step in which bidding completes
BiddingCompletes ==
    game_match.status = "bidding" /\ game_match'.status = "playing"

\* C18: when bidding completes the pass handler stores the trick state that
\* GameTrickState::new builds: trick 1, no cards played, current player =
\* current_leader = (dealer + 1) mod 4, zero tallies, trump team = (declarer,
\* partner)
C18_TrickStateInitialised ==
    [][BiddingCompletes =>
          /\ game_match'.current_leader
                 = Some((Unwrap(game_match'.dealer_position) + 1) % 4)
          /\ trick_state' =
                 Some(NewGameTrickState(Unwrap(game_match'.current_leader),
                                        Unwrap(game_match'.trump_suit),
                                        determine_partnerships(game_match')))]_vars

\* the permanent trumps in a seat's hand
PermanentTrumpsOf(p) == {c \in Range(HandOf(p)) : is_permanent_trump(c)}

\* the seat other than the declarer that holds the highest permanent trump
\* held outside the declarer's hand; the opposite seat if there is none
HighestPermanentTrumpHolder(declarer) ==
    LET others == Seats \ {declarer}
        held == UNION {PermanentTrumpsOf(p) : p \in others}
        order(c) == Unwrap(trump_order(c, c.suit))
    IN  IF held = {} THEN (declarer + 2) % 4
        ELSE CHOOSE p \in others :
                 \E c \in PermanentTrumpsOf(p) : \A d \in held : order(d) <= order(c)

\* C19: when bidding completes the declarer's partner is the other seat that
\* holds the highest permanent trump, the opposite seat only if no other seat
\* holds one
C19_PartnerHoldsHighestTrump ==
    [][BiddingCompletes =>
          determine_partnerships(game_match')[2]
              = HighestPermanentTrumpHolder(Unwrap(game_match'.trump_declarer))]_vars

\* the statuses with which a handler refuses a command whose precondition
\* does not hold
IllegalPrecondition(r) == r.status \in {400, 403, 409}

\* C21: a command rejected for an illegal precondition (not the caller's turn,
\* illegal bid, too few trumps, card not held, follow-suit violation, wrong
\* match status, caller not host) leaves every stored key unchanged and
\* publishes no event
C21_RejectedHasNoEffect ==
    [][IllegalPrecondition(response') =>
          /\ UNCHANGED storeVars
          /\ published' = {}
          /\ sent' = {}]_vars

\* a card that breaks follow-suit has just been refused, after earlier plays
\* were stored and published
C21_Witness ==
    /\ response.op = "play_card"
    /\ response.status = 400
    /\ response.detail = "Illegal card play"
    /\ trick_state # None
    /\ Len(Unwrap(trick_state).current_trick.cards_played) >= 1
    /\ published = {}

\* nothing of match g is left in the store: no record, no players hash, no
\* pin, no back-reference to it and, for the match whose game is followed,
\* no hand and no trick state
Removed(g) ==
    /\ matches[g] = None
    /\ Members(g) = {}
    /\ ~game_pins[g]
    /\ \A u \in Users : player_games[u] # Some(g)
    /\ g = 1 => (trick_state = None /\ \A p \in Seats : hands[p] = None)

\* the step in which the leave of slot s, sent by the host of match g, is
\* answered
HostLeaveAnswered(s, g) ==
    /\ requests[s] # None
    /\ Unwrap(requests[s]).game = g
    /\ Unwrap(requests[s]).op = "leave"
    /\ Unwrap(requests[s]).is_host
    /\ requests'[s] = None
    /\ response'.status = 200

\* C22: when the host leaves, the match is removed with everything it owns:
\* no match record, players hash, hand, trick state or cross state key is
\* left, its pin no longer resolves and no back-reference points to it
C22_HostLeaveRemovesMatch ==
    [][\A s \in Slots : \A g \in MatchIds :
          HostLeaveAnswered(s, g) => Removed(g)']_vars

\* the user belongs to the match: the players hash of the match holds the
\* user and the user's back-reference names the match
Belongs(u, g) == u \in Members(g) /\ player_games[u] = Some(g)

\* the step in which the join command of slot s, sent by u with the pin of
\* match g, is checked against the store
JoinChecked(s, u, g) ==
    /\ requests[s] # None
    /\ Unwrap(requests[s]).op = "join"
    /\ Unwrap(requests[s]).user = u
    /\ Unwrap(requests[s]).pin = g
    /\ Unwrap(requests[s]).pc = 1
    /\ requests'[s] # requests[s]

\* the player set and roles of every match and every back-reference stay as
\* they are
MembershipUnchanged == UNCHANGED <<match_players, player_games>>

Forwarded(e) == \A p \in e.affected \cap connections : <<p, e.event>> \in sent

\* the event went out on the channels the instances subscribe to: the match
\* channel and the channel of each affected user
OnSubscribedChannels(e) == e.sink = "game_events"

\* C24: every event a handler publishes is published on the match channel and
\* on each affected user's channel, and the subscriber forwards it to the
\* outbound queue of every affected user with a live local connection
C24_PublishedEventsForwarded ==
    \A e \in published : OnSubscribedChannels(e) /\ Forwarded(e)

\* C25: when a session joins a match over the message channel the server
\* sends it one initial-state snapshot, the one of the match's current status
C25_InitialStateOnJoin ==
    [][\A u \in Users : \A g \in MatchIds :
          (matches[g] # None /\ JoinEventOf(u, g)) =>
              /\ send_initial_state(u, Unwrap(matches[g]).status) \subseteq sent'
              /\ Cardinality({m \in sent' : m[1] = u}) = 1]_vars

\* the step in which complete_game_handler accepts the command: it alone
\* clears the trick state
GameCompleted == trick_state # None /\ trick_state' = None

\* the cross state the match is scored against: the stored one, a new one if
\* none is stored
CrossStateOrNew == IF cross_state = None THEN NewCrossState ELSE Unwrap(cross_state)

\* C26: complete_game computes the outcome, applies it to the stored cross
\* state and publishes game_complete with the scoring result and the updated
\* cross state
C26_CrossStateApplied ==
    [][GameCompleted =>
          /\ game_result' = Some(calculate_game_result(get_final_scoring(Unwrap(trick_state))))
          /\ cross_state' = Some(apply_game_result(CrossStateOrNew, Unwrap(game_result')).state)
          /\ \E e \in published' : e.event = "game_complete"]_vars

\* the step in which the eighth trick completes
EighthTrickCompletes ==
    /\ trick_state # None
    /\ ~Unwrap(trick_state).game_complete
    /\ trick_state' # None
    /\ Unwrap(trick_state').game_complete

\* C27: when the eighth trick completes, play_card marks game_complete and
\* drives the completion, so that the match is completed; a match never stays
\* in playing with all eight tricks complete
C27_EighthTrickCompletesMatch ==
    [][EighthTrickCompletes =>
          /\ response'.op = "play_card"
          /\ game_match'.status = "completed"]_vars

\* C28: play_card with a malformed card code is rejected with the store
\* unchanged; a malformed code never aborts the handler
C28_MalformedCodeRejected ==
    [][\A player_position \in Seats : \A c \in MalformedCodes :
          PlayCardCodeOf(player_position, c) =>
              /\ IllegalPrecondition(response')
              /\ UNCHANGED storeVars]_vars

\* the state's response answers a hand query with the hand of the seat in
\* positions
HandReturned == positions # None /\ response.op = "hand" /\ response.status = 200

\* C29: the hand query returns the hand dealt to the caller's own seat: a
\* caller that is no player of the match receives no hand, and of two
\* consecutive answered queries in the same match with the same players, the
\* same seat's hand is returned exactly if the caller is the same
C29_OwnHandOnly ==
    [][(HandReturned' /\ positions' # positions) =>
          LET new == Unwrap(positions')
          IN  /\ new.user \in new.members
              /\ (/\ HandReturned
                  /\ Unwrap(positions).game = new.game
                  /\ Unwrap(positions).members = new.members)
                     => (Unwrap(positions).seat = new.seat
                            <=> Unwrap(positions).user = new.user)]_vars

\* the step in which the play_card command of slot s is accepted and written
PlayWritten(s) ==
    /\ requests[s] # None
    /\ requests'[s] = None
    /\ response'.status = 200

\* C30: the state-mutating commands on a match are serialised: a command is
\* never validated against a record that another command has changed since,
\* so no accepted update is lost
C30_CommandsSerialised ==
    [][\A s \in Slots :
          PlayWritten(s) =>
              Unwrap(requests[s]).snapshot = ReadStore(Unwrap(requests[s]).user)]_vars

\* with one command at a time the handler in steps answers as
\* play_card_handler does
PlayOutcomeAgrees ==
    [][\A s \in Slots :
          (requests[s] # None /\ requests'[s] = None
               /\ Unwrap(requests[s]).snapshot = ReadStore(Unwrap(requests[s]).user))
            => play_card_handler(Unwrap(requests[s]).user, Unwrap(requests[s]).card)]_vars

\* C31: the pin index is written last on creation and removed first on
\* deletion: at every point, also between two writes, a pin in the index
\* resolves to a match whose record and players hash exist
C31_PinResolves ==
    \A g \in MatchIds : game_pins[g] => (matches[g] # None /\ Members(g) # {})

\* the step of session i's teardown
TeardownStep(i) == sessions[i] # None /\ TeardownOf(i)

\* C32: a teardown removes its user from connections and from every
\* match_members set, removes from the subscription set every match whose
\* local member set thereby became empty, and leaves the entries of other
\* users as they are
C32_TeardownFrame ==
    [][\A i \in SessionIds :
          TeardownStep(i) =>
              LET u == sessions[i][1].user
              IN  /\ \A v \in Users \ {u} :
                         /\ app_state'.user_connections[v] = app_state.user_connections[v]
                         /\ \A g \in MatchIds : v \in LocalMembers(g) <=> v \in LocalMembers(g)'
                  /\ \A g \in app_state.subscribed_games \ app_state'.subscribed_games :
                         LocalMembers(g)' = {}
                  /\ sessions[i][1].pc = "remove_connection" =>
                         app_state'.user_connections[u] = None
                  /\ sessions[i][1].pc = "retain" =>
                         \A g \in MatchIds : u \notin LocalMembers(g)'
                  /\ sessions'[i][1].pc = "done" =>
                         \A g \in sessions'[i][1].games_to_remove :
                             g \notin app_state'.subscribed_games]_vars

\* C33: once the pump of a session has failed to send to the wire, the session
\* is terminated and its teardown runs to the end
C33_PumpFailureEndsSession ==
    \A i \in SessionIds :
        (sessions[i] # None /\ sessions[i][1].pump = "failed")
            ~> (sessions[i] # None /\ sessions[i][1].pc = "done")

\* C36: a user with a live session is mapped by connections to the queue of
\* one of its live sessions; the teardown of an older session does not remove
\* the entry a newer session registered
C36_LiveSessionRegistered ==
    \A i \in SessionIds :
        Live(i) =>
            LET entry == app_state.user_connections[sessions[i][1].user]
            IN  /\ entry # None
                /\ Live(Unwrap(entry))
                /\ sessions[Unwrap(entry)][1].user = sessions[i][1].user

\* C34: a full outbound queue does not hold up its sender: the listener with
\* a player still to serve can always take its next step
C34_SenderNeverBlocked ==
    listener # <<>> => ENABLED ListenerSend

\* C35: a live event whose timestamp is strictly earlier than the timestamp of
\* a snapshot is reflected in the snapshot: the snapshot was read from the
\* store after the event's state change
C35_EarlierEventReflected ==
    (/\ snapshot # None
     /\ Unwrap(snapshot).state # None
     /\ published # {}
     /\ now < Unwrap(snapshot).timestamp)
        => Unwrap(Unwrap(snapshot).state) = game_match

\* the step in which a complete_game command is accepted
Scored == response'.op = "complete" /\ response'.status = 200

\* C37: scoring is applied at most once to a match: a complete_game command is
\* accepted, with its game_complete event, only for a match that has not been
\* completed before
C37_ScoredOnce ==
    [][(Scored /\ published' # {}) => game_match.status # "completed"]_vars

\* C38: the bonus of 2 pending after a tie goes to the winner of the next
\* decided game and to nobody else: that game takes its outcome plus 2 off one
\* counter, the other counter does not move, and the bonus is then spent
C38_BonusToWinnerOnly ==
    [][(GameApplied /\ Decided(Unwrap(game_result'))
          /\ Unwrap(cross_state).next_game_bonus = 2) =>
              /\ Unwrap(cross_state').next_game_bonus = 0
              /\ TrumpDelta = 0 \/ OpponentDelta = 0
              /\ TrumpDelta + OpponentDelta = OutcomePoints(Unwrap(game_result')) + 2]_vars

\* the bids make_bid_handler accepts from a player as the store stands
AcceptedBids(player_position) ==
    {b \in [length : 0..9, suit : Suits] :
        /\ hands[player_position] # None
        /\ calculate_trump_counts(Unwrap(hands[player_position]), b.suit) >= b.length
        /\ make_bid(game_match, player_position, b.length, b.suit).ok}

\* C39: the bids reported as available to the current bidder are exactly the
\* bids make_bid would accept from it: every one offered is legal and backed
\* by the hand, and every legal bid the hand backs is offered
C39_OfferedIsAccepted ==
    \A player_position \in Seats :
        (/\ game_match.status = "bidding"
         /\ is_player_turn_to_bid(game_match, player_position)
         /\ hands[player_position] # None)
            => get_available_bids(Unwrap(hands[player_position]),
                                  game_match.highest_bid_length)
                   = AcceptedBids(player_position)

\* the events that tell players of a change of the game (a hand update goes
\* out under the name hand_updated)
GameEvents ==
    {"bid_made", "pass_made", "redeal", "bidding_complete", "hand_update",
     "hand_updated", "game_state_update"}

\* C40: a game event is put on a player's queue only by a step that commits a
\* state change: a message a client sends over the channel does not make
\* players receive one
C40_EventsFollowStateChange ==
    [][(\E m \in sent' : m[2] \in GameEvents)
          => <<storeVars, lobbyStore>>' # <<storeVars, lobbyStore>>]_vars

====
